---- MODULE Spec2Model ----
(***************************************************************************)
(* Rule-evaluation engine of the evacuation compliance checker:            *)
(* dataset lookups, the occupant-load calculator, the rule modules         *)
(* (occupant load, exits, travel distance, stairs) and the evaluator.      *)
(*                                                                         *)
(* Numbers are fixed-point integers: areas and area-per-person factors in  *)
(* hundredths of a square metre, widths and lengths in centimetres.        *)
(* Cyrillic text of the dataset is transliterated to ASCII, character for  *)
(* character where a substring test of the code depends on it.             *)
(***************************************************************************)
EXTENDS Integers, Sequences, FiniteSets, TLC

(* ------------------------------------------------------------------ *)
(* Values                                                             *)
(* ------------------------------------------------------------------ *)

\* null of a number | null field (measured, required, min_width_m, ...)
Null == -1

\* undefined of an optional numeric field (occupants_override, step_width_m, ...)
Undef == -2

\* undefined of an optional string field (fire_hazard_category, category)
NoCat == ""

Min(S) == CHOOSE x \in S : \A y \in S : x <= y

Max2(a, b) == IF a >= b THEN a ELSE b

\* Number of elements of a sequence satisfying a test (Array.filter(..).length)
RECURSIVE SumSeq(_)
SumSeq(s) == IF s = <<>> THEN 0 ELSE Head(s) + SumSeq(Tail(s))

\* Array.prototype.filter
Filter(s, P(_)) == SelectSeq(s, P)

\* Array.prototype.find: the first element passing the test, as a sequence
\* of length one, or the empty sequence when there is none (undefined/null).
Find(s, P(_)) ==
  LET idx == {i \in 1..Len(s) : P(s[i])}
  IN  IF idx = {} THEN <<>> ELSE <<s[Min(idx)]>>

\* Array.prototype.some
Some(s, P(_)) == \E i \in 1..Len(s) : P(s[i])

\* const x = value; body: the value is computed once and named in the body
Const(value, Body(_)) == Body(value)

\* Array.prototype.includes on an array of ids or floors
Contains(s, x) == \E i \in 1..Len(s) : s[i] = x

(* ------------------------------------------------------------------ *)
(* Strings                                                            *)
(* ------------------------------------------------------------------ *)

\* String.prototype.includes
Includes(s, t) ==
  \E i \in 1..(Len(s) - Len(t) + 1) : SubSeq(s, i, i + Len(t) - 1) = t

\* String.prototype.startsWith
StartsWith(s, t) == Len(s) >= Len(t) /\ SubSeq(s, 1, Len(t)) = t

UpperChars == "ABCDEFGHIJKLMNOPQRSTUVWXYZ"
LowerChars == "abcdefghijklmnopqrstuvwxyz"

LowerMap ==
  [c \in {SubSeq(UpperChars, i, i) : i \in 1..Len(UpperChars)} |->
     LET i == CHOOSE j \in 1..Len(UpperChars) : SubSeq(UpperChars, j, j) = c
     IN  SubSeq(LowerChars, i, i)]

LowerChar(c) == IF c \in DOMAIN LowerMap THEN LowerMap[c] ELSE c

\* String.prototype.toLowerCase, character by character
RECURSIVE LowerCaseOf(_)
LowerCaseOf(s) ==
  IF Len(s) = 0 THEN ""
  ELSE LowerChar(SubSeq(s, 1, 1)) \o LowerCaseOf(SubSeq(s, 2, Len(s)))

\* The space types of table 8 and the purposes of spaces that the inputs use
SpaceTypeNames ==
  { "Targoviya, kota teren", "Targoviya, izvan kota teren", "Muzei", "Ofisi",
    "Office", "Hall", "Store", "Teren", "" }

\* The lower-case forms of the names above, computed once
LowerCaseMemo == [s \in SpaceTypeNames |-> LowerCaseOf(s)]

\* String.prototype.toLowerCase
ToLowerCase(s) ==
  IF s \in DOMAIN LowerCaseMemo THEN LowerCaseMemo[s] ELSE LowerCaseOf(s)

\* Collation order of the characters that occur in rule ids
CollationChars == "-0123456789ABCDEFGHIJKLMNOPQRSTUVWXYZ"

RankMap ==
  [c \in {SubSeq(CollationChars, i, i) : i \in 1..Len(CollationChars)} |->
     CHOOSE j \in 1..Len(CollationChars) : SubSeq(CollationChars, j, j) = c]

CharRank(c) == IF c \in DOMAIN RankMap THEN RankMap[c] ELSE 0

\* String.prototype.localeCompare on rule ids: negative, zero or positive
RECURSIVE localeCompare(_, _)
localeCompare(a, b) ==
  IF a = b THEN 0
  ELSE IF Len(a) = 0 THEN -1
  ELSE IF Len(b) = 0 THEN 1
  ELSE LET ca == CharRank(SubSeq(a, 1, 1))
           cb == CharRank(SubSeq(b, 1, 1))
       IN  IF ca # cb THEN ca - cb
           ELSE localeCompare(SubSeq(a, 2, Len(a)), SubSeq(b, 2, Len(b)))

(* ------------------------------------------------------------------ *)
(* Dataset lookups (lookup.ts)                                        *)
(* ------------------------------------------------------------------ *)

getFunctionalClassGroup(functionalClass) ==
  SubSeq(functionalClass, 1, IF Len(functionalClass) < 2 THEN Len(functionalClass) ELSE 2)

isIndustrialClass(functionalClass) == StartsWith(functionalClass, "F5")

\* Variant: the retail branch always answers with the ground-floor default
lookupOccupantLoadFactorGroundDefault(table, functionalClass, spaceType, isGroundFloor) ==
  LET ExactP(entry) ==
        /\ entry.functional_class = functionalClass
        /\ Includes(ToLowerCase(entry.space_type), ToLowerCase(spaceType))
      IsF31(e) == e.functional_class = "F3.1"
      GroundP(e) == Includes(e.space_type, "kota teren")
      ClassP(entry) == entry.functional_class = functionalClass
      GeneralP(entry) ==
        /\ entry.functional_class = "general"
        /\ Includes(ToLowerCase(entry.space_type), "ofis")
  IN  Const(IF spaceType # "" THEN Find(table, ExactP) ELSE <<>>, LAMBDA exactMatch :
        IF exactMatch # <<>> THEN exactMatch
        ELSE IF functionalClass = "F3.1" THEN
          Const(Filter(table, IsF31), LAMBDA entries :
          Const(Find(entries, GroundP), LAMBDA groundDefault :
            IF groundDefault # <<>> THEN groundDefault
            ELSE IF entries # <<>> THEN <<entries[1]>>
            ELSE <<>>))
        ELSE Const(Find(table, ClassP), LAMBDA classMatch :
               IF classMatch # <<>> THEN classMatch
               ELSE Find(table, GeneralP)))

\* Variant: the retail branch goes on to the general office row when the table
\* has no retail row
lookupOccupantLoadFactorFallingThrough(table, functionalClass, spaceType, isGroundFloor) ==
  LET ExactP(entry) ==
        /\ entry.functional_class = functionalClass
        /\ Includes(ToLowerCase(entry.space_type), ToLowerCase(spaceType))
      IsF31(e) == e.functional_class = "F3.1"
      GroundP(e) == Includes(e.space_type, "kota teren")
      AboveP(e) == Includes(e.space_type, "izvan")
      ClassP(entry) == entry.functional_class = functionalClass
      GeneralP(entry) ==
        /\ entry.functional_class = "general"
        /\ Includes(ToLowerCase(entry.space_type), "ofis")
  IN  Const(IF spaceType # "" THEN Find(table, ExactP) ELSE <<>>, LAMBDA exactMatch :
        IF exactMatch # <<>> THEN exactMatch
        ELSE IF functionalClass = "F3.1" THEN
          Const(Filter(table, IsF31), LAMBDA entries :
          Const(IF isGroundFloor = "undefined" THEN <<>>
                ELSE IF isGroundFloor = "true" THEN Find(entries, GroundP)
                ELSE Find(entries, AboveP), LAMBDA match :
          Const(Find(entries, GroundP), LAMBDA groundDefault :
            IF match # <<>> THEN match
            ELSE IF groundDefault # <<>> THEN groundDefault
            ELSE IF entries # <<>> THEN <<entries[1]>>
            ELSE Find(table, GeneralP))))
        ELSE Const(Find(table, ClassP), LAMBDA classMatch :
               IF classMatch # <<>> THEN classMatch
               ELSE Find(table, GeneralP)))

\* isGroundFloor is "true", "false" or "undefined"; spaceType "" is falsy
lookupOccupantLoadFactor(table, functionalClass, spaceType, isGroundFloor) ==
  LET ExactP(entry) ==
        /\ entry.functional_class = functionalClass
        /\ Includes(ToLowerCase(entry.space_type), ToLowerCase(spaceType))
      IsF31(e) == e.functional_class = "F3.1"
      GroundP(e) == Includes(e.space_type, "kota teren")
      AboveP(e) == Includes(e.space_type, "izvan")
      ClassP(entry) == entry.functional_class = functionalClass
      GeneralP(entry) ==
        /\ entry.functional_class = "general"
        /\ Includes(ToLowerCase(entry.space_type), "ofis")
  IN  Const(IF spaceType # "" THEN Find(table, ExactP) ELSE <<>>, LAMBDA exactMatch :
        IF exactMatch # <<>> THEN exactMatch
        ELSE IF functionalClass = "F3.1" THEN
          Const(Filter(table, IsF31), LAMBDA entries :
          Const(IF isGroundFloor = "undefined" THEN <<>>
                ELSE IF isGroundFloor = "true" THEN Find(entries, GroundP)
                ELSE Find(entries, AboveP), LAMBDA match :
          Const(Find(entries, GroundP), LAMBDA groundDefault :
            IF match # <<>> THEN match
            ELSE IF groundDefault # <<>> THEN groundDefault
            ELSE IF entries # <<>> THEN <<entries[1]>>
            ELSE <<>>)))
        ELSE Const(Find(table, ClassP), LAMBDA classMatch :
               IF classMatch # <<>> THEN classMatch
               ELSE Find(table, GeneralP)))

\* Array.prototype.reduce((min, entry) => entry.min_exits < min.min_exits ? entry : min)
\* Variant: the first relevant entry is returned whatever follows it
KeepFirstEntry(min, rest) == min

RECURSIVE ReduceMinExits(_, _)
ReduceMinExits(min, rest) ==
  IF rest = <<>> THEN min
  ELSE ReduceMinExits(IF Head(rest).min_exits < min.min_exits THEN Head(rest) ELSE min,
                      Tail(rest))

MinExitsRowMatches(entry, isF5, occupants, area_m2, isUnderground, fireHazardCategory) ==
  /\ IF isF5
       THEN /\ entry.functional_class_group = "F5"
            /\ ~(entry.category # NoCat /\ fireHazardCategory # NoCat
                   /\ entry.category # fireHazardCategory)
       ELSE entry.functional_class_group = "F1-F4"
  /\ ~(entry.underground_only /\ ~isUnderground)
  /\ ~(occupants < entry.min_occupants)
  /\ ~(entry.max_occupants # Null /\ occupants > entry.max_occupants)
  /\ ~(entry.max_area_m2 # Null /\ area_m2 > entry.max_area_m2)

lookupMinExits(table, functionalClass, occupants, area_m2, isUnderground, fireHazardCategory) ==
  LET isF5 == isIndustrialClass(functionalClass)
      Rel(entry) == MinExitsRowMatches(entry, isF5, occupants, area_m2,
                                       isUnderground, fireHazardCategory)
  IN  Const(Filter(table, Rel), LAMBDA relevantEntries :
        IF Len(relevantEntries) = 0 THEN <<>>
        ELSE <<ReduceMinExits(Head(relevantEntries), Tail(relevantEntries))>>)

\* Variant: sprinklers alone select the special F5V row
lookupMaxTravelDistanceSprinklersOnly(table, evacuationType, context, fireHazardCategory, cond) ==
  LET GDp(e) == /\ e.evacuation_type = evacuationType
                /\ Includes(e.context, "F5G/F5D")
                /\ Includes(e.context, "ednoetazhna")
      Vp(e) == /\ e.evacuation_type = evacuationType
               /\ Includes(e.context, "F5V")
               /\ Includes(e.context, "PGI")
      Dp(e) == /\ e.evacuation_type = evacuationType
               /\ e.context = (IF context = "room" THEN "Vatre v pomeshtenie"
                               ELSE "Do stalbishte/zashtitena zona")
  IN  Const(IF fireHazardCategory \in {"F5G", "F5D"} /\ cond.isSingleStorey
              THEN Find(table, GDp) ELSE <<>>, LAMBDA special1 :
        IF special1 # <<>> THEN special1
        ELSE Const(IF fireHazardCategory = "F5V" /\ cond.hasSprinklers
                     THEN Find(table, Vp) ELSE <<>>, LAMBDA special2 :
               IF special2 # <<>> THEN special2 ELSE Find(table, Dp)))

\* context is "room" or "corridor"; cond is the hasSpecialConditions record
lookupMaxTravelDistance(table, evacuationType, context, fireHazardCategory, cond) ==
  LET GDp(e) == /\ e.evacuation_type = evacuationType
                /\ Includes(e.context, "F5G/F5D")
                /\ Includes(e.context, "ednoetazhna")
      Vp(e) == /\ e.evacuation_type = evacuationType
               /\ Includes(e.context, "F5V")
               /\ Includes(e.context, "PGI")
      contextMap == IF context = "room" THEN "Vatre v pomeshtenie"
                    ELSE "Do stalbishte/zashtitena zona"
      Dp(e) == e.evacuation_type = evacuationType /\ e.context = contextMap
  IN  Const(IF fireHazardCategory \in {"F5G", "F5D"} /\ cond.isSingleStorey
              THEN Find(table, GDp) ELSE <<>>, LAMBDA special1 :
        IF special1 # <<>> THEN special1
        ELSE Const(IF fireHazardCategory = "F5V" /\ cond.hasSprinklers /\ cond.hasFireAlarm
                     THEN Find(table, Vp) ELSE <<>>, LAMBDA special2 :
               IF special2 # <<>> THEN special2
               ELSE Find(table, Dp)))

\* Variant: above 50 occupants a spiral stair takes the row with the over-50
\* marker only
lookupMinWidthOverMarker(table, elementType, occupants, isUnderground) ==
  LET OfType(e) == e.element_type = elementType
      CtxP(e) == IF isUnderground
                   THEN Includes(ToLowerCase(e.context), "podzemni")
                   ELSE Includes(ToLowerCase(e.context), "nadzemni")
      Has15(e) == Includes(e.context, "15")
      Has50(e) == Includes(e.context, "16-50") \/ Includes(e.context, "50")
      Has200(e) == Includes(e.context, "200")
      HasOver200(e) == Includes(e.context, "Nad 200")
      Sp50(e) == Includes(e.context, "16-50")
      SpOver50(e) == Includes(e.context, "Nad 50")
  IN  Const(Filter(table, OfType), LAMBDA entries :
        IF Len(entries) = 0 THEN <<>>
        ELSE IF elementType = "corridor" \/ (elementType = "stair" /\ occupants > 200)
          THEN Const(Find(entries, CtxP), LAMBDA contextMatch :
                 IF contextMatch # <<>> THEN contextMatch ELSE <<entries[1]>>)
        ELSE IF elementType = "exit_door"
          THEN (IF occupants <= 15 THEN Find(entries, Has15)
                ELSE IF occupants <= 50 THEN Find(entries, Has50)
                ELSE IF occupants <= 200 THEN Find(entries, Has200)
                ELSE Find(entries, HasOver200))
        ELSE IF elementType = "spiral_stair"
          THEN (IF occupants <= 50 THEN Find(entries, Sp50) ELSE Find(entries, SpOver50))
        ELSE <<entries[1]>>)

lookupMinWidth(table, elementType, occupants, isUnderground) ==
  LET OfType(e) == e.element_type = elementType
      CtxP(e) == IF isUnderground
                   THEN Includes(ToLowerCase(e.context), "podzemni")
                   ELSE Includes(ToLowerCase(e.context), "nadzemni")
      Has15(e) == Includes(e.context, "15")
      Has50(e) == Includes(e.context, "16-50") \/ Includes(e.context, "50")
      Has200(e) == Includes(e.context, "200")
      HasOver200(e) == Includes(e.context, "Nad 200")
      Sp50(e) == Includes(e.context, "16-50")
      SpOver50(e) == Includes(e.context, "Nad 50") \/ Includes(e.context, "50 choveka")
  IN  Const(Filter(table, OfType), LAMBDA entries :
        IF Len(entries) = 0 THEN <<>>
        ELSE IF elementType = "corridor" \/ (elementType = "stair" /\ occupants > 200)
          THEN Const(Find(entries, CtxP), LAMBDA contextMatch :
                 IF contextMatch # <<>> THEN contextMatch ELSE <<entries[1]>>)
        ELSE IF elementType = "exit_door"
          THEN (IF occupants <= 15 THEN Find(entries, Has15)
                ELSE IF occupants <= 50 THEN Find(entries, Has50)
                ELSE IF occupants <= 200 THEN Find(entries, Has200)
                ELSE Find(entries, HasOver200))
        ELSE IF elementType = "spiral_stair"
          THEN (IF occupants <= 50 THEN Find(entries, Sp50) ELSE Find(entries, SpOver50))
        ELSE <<entries[1]>>)

(* ------------------------------------------------------------------ *)
(* Findings                                                           *)
(* ------------------------------------------------------------------ *)

Finding(rule_id, status, severity, scope, subject_id, measured, required, legal_reference) ==
  [rule_id |-> rule_id, status |-> status, severity |-> severity, scope |-> scope,
   subject_id |-> subject_id, measured |-> measured, required |-> required,
   legal_reference |-> legal_reference]

\* status === 'FAIL' ? 'BLOCKER' : 'INFO'
SeverityOf(status) == IF status = "FAIL" THEN "BLOCKER" ELSE "INFO"

\* for (const x of xs) findings.push(...F(x))
ConcatMap(xs, F(_)) ==
  LET acc[i \in 0..Len(xs)] == IF i = 0 THEN <<>> ELSE acc[i - 1] \o F(xs[i])
  IN  acc[Len(xs)]

(* ------------------------------------------------------------------ *)
(* Occupant load (rules/occupant-load.ts)                             *)
(* ------------------------------------------------------------------ *)

\* Variant: Math.floor in place of Math.ceil
FloorDiv(a, b) == a \div b

\* Math.ceil(a / b) for b > 0
CeilDiv(a, b) == -((-a) \div b)

\* const defaultAreaPerPerson = 5.0
defaultAreaPerPerson == 500

IsGroundFloor(space) == IF space.floor = 0 THEN "true" ELSE "false"

\* Variant: any defined override is taken, a zero one included
OverrideIsDefined(space) == space.occupants_override # Undef

OverrideIsSet(space) ==
  space.occupants_override # Undef /\ space.occupants_override > 0

calculateOccupantLoad(space, ctx) ==
  IF OverrideIsSet(space)
    THEN [id |-> space.id,
          computed_occupants |-> space.occupants_override,
          occupant_source |-> "override",
          area_per_person_m2 |-> Null]
  ELSE
    Const(lookupOccupantLoadFactor(ctx.datasets.tables.occupant_load_table_8,
                                   ctx.project.building.functional_class,
                                   space.purpose, IsGroundFloor(space)), LAMBDA loadEntry :
      IF loadEntry = <<>>
        THEN [id |-> space.id,
              computed_occupants |-> CeilDiv(space.area_m2, defaultAreaPerPerson),
              occupant_source |-> "calculated",
              area_per_person_m2 |-> defaultAreaPerPerson]
      ELSE [id |-> space.id,
            computed_occupants |-> CeilDiv(space.area_m2, loadEntry[1].area_per_person_m2),
            occupant_source |-> "calculated",
            area_per_person_m2 |-> loadEntry[1].area_per_person_m2])

calculateTotalOccupants(ctx) ==
  Const([i \in 1..Len(ctx.project.spaces) |->
           calculateOccupantLoad(ctx.project.spaces[i], ctx)], LAMBDA computedSpaces :
    [total |-> SumSeq([i \in 1..Len(computedSpaces) |->
                         computedSpaces[i].computed_occupants]),
     bySpace |-> computedSpaces])

\* Variant: the default-factor warning is raised for a space with an override too
OccupantLoadFindingsIgnoringSource(space, ctx) ==
  LET computed == calculateOccupantLoad(space, ctx)
      loadEntry == lookupOccupantLoadFactor(ctx.datasets.tables.occupant_load_table_8,
                                            ctx.project.building.functional_class,
                                            space.purpose, IsGroundFloor(space))
      info == Finding("EGR-OCC-001", "PASS", "INFO", "space", space.id,
                      computed.computed_occupants, Null, "art. 36, table 8")
      warn == Finding("EGR-OCC-002", "REVIEW", "WARNING", "space", space.id,
                      Null, Null, "art. 36, table 8")
  IN  IF loadEntry = <<>> THEN <<info, warn>> ELSE <<info>>

OccupantLoadFindingsForSpace(space, ctx) ==
  Const(calculateOccupantLoad(space, ctx), LAMBDA computed :
  Const(lookupOccupantLoadFactor(ctx.datasets.tables.occupant_load_table_8,
                                 ctx.project.building.functional_class,
                                 space.purpose, IsGroundFloor(space)), LAMBDA loadEntry :
    <<Finding("EGR-OCC-001", "PASS", "INFO", "space", space.id,
              computed.computed_occupants, Null,
              IF loadEntry # <<>> /\ loadEntry[1].article_ref # ""
                THEN loadEntry[1].article_ref ELSE "art. 36, table 8")>>
    \o (IF loadEntry = <<>> /\ computed.occupant_source = "calculated"
          THEN <<Finding("EGR-OCC-002", "REVIEW", "WARNING", "space", space.id,
                         Null, Null, "art. 36, table 8")>>
          ELSE <<>>)))

evaluateOccupantLoad(ctx) ==
  LET F(space) == OccupantLoadFindingsForSpace(space, ctx)
  IN  ConcatMap(ctx.project.spaces, F)

(* ------------------------------------------------------------------ *)
(* Exits (rules/exits.ts)                                             *)
(* ------------------------------------------------------------------ *)

\* Variant: an exit counts for a space only when the space is the first it serves
getExitsFirstServed(space, exits) ==
  LET Serves(exit) == exit.serves_space_ids[1] = space.id
  IN  Filter(exits, Serves)

getExitsForSpace(space, exits) ==
  LET Serves(exit) == Contains(exit.serves_space_ids, space.id)
  IN  Filter(exits, Serves)

\* Variant: a missing requirement row is taken as a requirement of one exit
evaluateMinExitsDefaultOne(space, ctx) ==
  LET occupants == calculateOccupantLoad(space, ctx).computed_occupants
      actualExits == Len(Filter(ctx.project.exits,
                                LAMBDA exit : Contains(exit.serves_space_ids, space.id)))
      exitRequirement == lookupMinExits(ctx.datasets.tables.min_exits_by_occupants,
                                        ctx.project.building.functional_class,
                                        occupants, space.area_m2, space.is_underground,
                                        space.fire_hazard_category)
      requiredExits == IF exitRequirement = <<>> THEN 1 ELSE exitRequirement[1].min_exits
      status == IF actualExits >= requiredExits THEN "PASS" ELSE "FAIL"
  IN  <<Finding("EGR-EXIT-001", status, SeverityOf(status), "space", space.id,
                actualExits, requiredExits, "art. 41-42")>>

evaluateMinExitsForSpace(space, ctx) ==
  Const(calculateOccupantLoad(space, ctx).computed_occupants, LAMBDA occupants :
  Const(Len(getExitsForSpace(space, ctx.project.exits)), LAMBDA actualExits :
  Const(lookupMinExits(ctx.datasets.tables.min_exits_by_occupants,
                       ctx.project.building.functional_class,
                       occupants, space.area_m2, space.is_underground,
                       space.fire_hazard_category), LAMBDA exitRequirement :
    IF exitRequirement = <<>>
      THEN <<Finding("EGR-EXIT-001", "REVIEW", "WARNING", "space", space.id,
                     actualExits, Null, "art. 41-42")>>
    ELSE
      Const(exitRequirement[1].min_exits, LAMBDA requiredExits :
      Const(IF actualExits >= requiredExits THEN "PASS" ELSE "FAIL", LAMBDA status :
        <<Finding("EGR-EXIT-001", status, SeverityOf(status), "space", space.id,
                  actualExits, requiredExits, exitRequirement[1].article_ref)>>)))))

\* Sum of the computed occupant loads of the given spaces
TotalOccupantsOf(spaces, ctx) ==
  SumSeq([i \in 1..Len(spaces) |-> calculateOccupantLoad(spaces[i], ctx).computed_occupants])

\* const minWidth = widthReq.min_width_m || 0.9
DefaultExitWidth == 90

\* if (totalOccupants > 50 && widthReq.max_width_m)
MaxWidthOccupants == 50

\* if (totalOccupants > 100 && !exit.has_panic_hardware)
PanicOccupants == 100

NeedsPanicHardware(totalOccupants, exit) ==
  totalOccupants > PanicOccupants /\ ~exit.has_panic_hardware

\* Variant: every space of the project counts as served by the exit
allSpacesServed(exit, ctx) == ctx.project.spaces

\* project.spaces.filter(s => exit.serves_space_ids.includes(s.id))
servedSpacesOf(exit, ctx) ==
  LET Served(s) == Contains(exit.serves_space_ids, s.id)
  IN  Filter(ctx.project.spaces, Served)

evaluateExitWidth(exit, ctx) ==
  Const(servedSpacesOf(exit, ctx), LAMBDA servedSpaces :
  Const(TotalOccupantsOf(servedSpaces, ctx), LAMBDA totalOccupants :
  Const(Some(servedSpaces, LAMBDA s : s.is_underground), LAMBDA hasUnderground :
  Const(lookupMinWidth(ctx.datasets.tables.min_widths, "exit_door",
                       totalOccupants, hasUnderground), LAMBDA widthReq :
    IF widthReq = <<>>
      THEN <<Finding("EGR-WIDTH-001", "REVIEW", "WARNING", "exit", exit.id,
                     exit.width_m, Null, "art. 41")>>
    ELSE
      Const(IF widthReq[1].min_width_m \in {Null, Undef, 0}
              THEN DefaultExitWidth ELSE widthReq[1].min_width_m, LAMBDA minWidth :
      Const(IF exit.width_m >= minWidth THEN "PASS" ELSE "FAIL", LAMBDA status :
      Const(widthReq[1].max_width_m, LAMBDA maxWidth :
        <<Finding("EGR-WIDTH-001", status, SeverityOf(status), "exit", exit.id,
                  exit.width_m, minWidth, widthReq[1].article_ref)>>
        \o (IF totalOccupants > MaxWidthOccupants
                /\ maxWidth \notin {Null, Undef, 0} /\ exit.width_m > maxWidth
              THEN <<Finding("EGR-WIDTH-002", "REVIEW", "WARNING", "exit", exit.id,
                             exit.width_m, maxWidth, "art. 41, par. 6")>>
              ELSE <<>>)
        \o (IF NeedsPanicHardware(totalOccupants, exit)
              THEN <<Finding("EGR-EXIT-003", "FAIL", "BLOCKER", "exit", exit.id,
                             Null, Null, "art. 43, par. 2")>>
              ELSE <<>>))))))))

\* Variant: the widths of the exits are not evaluated
evaluateExitsOfSpaces(ctx) ==
  LET PerSpace(space) == evaluateMinExitsForSpace(space, ctx)
  IN  ConcatMap(ctx.project.spaces, PerSpace)

evaluateExits(ctx) ==
  LET PerSpace(space) == evaluateMinExitsForSpace(space, ctx)
      PerExit(exit) == evaluateExitWidth(exit, ctx)
  IN  ConcatMap(ctx.project.spaces, PerSpace) \o ConcatMap(ctx.project.exits, PerExit)

(* ------------------------------------------------------------------ *)
(* Travel distance (rules/travel-distance.ts)                         *)
(* ------------------------------------------------------------------ *)

\* project.spaces.find(s => s.id === route.from_space_id)
FromSpace(route, ctx) ==
  LET IsFrom(s) == s.id = route.from_space_id
  IN  Find(ctx.project.spaces, IsFrom)

\* fromSpace?.fire_hazard_category
FromSpaceCategory(route, ctx) ==
  Const(FromSpace(route, ctx), LAMBDA fromSpace :
    IF fromSpace = <<>> THEN NoCat ELSE fromSpace[1].fire_hazard_category)

\* Variant: a route whose length equals the limit is rejected
evaluateRouteDistanceStrict(route, ctx) ==
  Const(lookupMaxTravelDistance(ctx.datasets.tables.max_travel_distance,
                                route.evacuation_type, "room",
                                FromSpaceCategory(route, ctx),
                                [isSingleStorey |-> ctx.project.building.is_single_storey,
                                 hasSprinklers |-> ctx.project.building.has_sprinklers,
                                 hasFireAlarm |-> ctx.project.building.has_fire_alarm]),
        LAMBDA distanceEntry :
    IF distanceEntry = <<>>
      THEN <<Finding("EGR-TRAVEL-001", "REVIEW", "WARNING", "route", route.id,
                     route.length_m, Null, "art. 44")>>
    ELSE
      Const(IF route.length_m < distanceEntry[1].max_distance_m THEN "PASS" ELSE "FAIL",
            LAMBDA status :
        <<Finding("EGR-TRAVEL-001", status, SeverityOf(status), "route", route.id,
                  route.length_m, distanceEntry[1].max_distance_m,
                  distanceEntry[1].article_ref)>>))

evaluateRouteDistance(route, ctx) ==
  Const(lookupMaxTravelDistance(ctx.datasets.tables.max_travel_distance,
                                route.evacuation_type, "room",
                                FromSpaceCategory(route, ctx),
                                [isSingleStorey |-> ctx.project.building.is_single_storey,
                                 hasSprinklers |-> ctx.project.building.has_sprinklers,
                                 hasFireAlarm |-> ctx.project.building.has_fire_alarm]),
        LAMBDA distanceEntry :
    IF distanceEntry = <<>>
      THEN <<Finding("EGR-TRAVEL-001", "REVIEW", "WARNING", "route", route.id,
                     route.length_m, Null, "art. 44")>>
    ELSE
      Const(distanceEntry[1].max_distance_m, LAMBDA maxDistance :
      Const(IF route.length_m <= maxDistance THEN "PASS" ELSE "FAIL", LAMBDA status :
        <<Finding("EGR-TRAVEL-001", status, SeverityOf(status), "route", route.id,
                  route.length_m, maxDistance, distanceEntry[1].article_ref)>>)))

\* let maxDeadEnd = 20
DefaultMaxDeadEnd == 2000

\* Variant: the general row serves every category
evaluateDeadEndLengthGeneral(route, ctx) ==
  LET GenP(e) == Includes(e.context, "sasedni pomeshteniya F5V") \/ Includes(e.context, "F1-F4")
  IN  IF ~route.has_dead_end \/ route.dead_end_length_m = Undef THEN <<>>
      ELSE
        Const(Find(ctx.datasets.tables.dead_end_limits, GenP), LAMBDA entry :
        Const(IF entry # <<>> THEN entry[1].max_distance_m ELSE DefaultMaxDeadEnd,
              LAMBDA maxDeadEnd :
        Const(IF route.dead_end_length_m <= maxDeadEnd THEN "PASS" ELSE "FAIL",
              LAMBDA status :
          <<Finding("EGR-TRAVEL-002", status, SeverityOf(status), "route", route.id,
                    route.dead_end_length_m, maxDeadEnd,
                    IF entry # <<>> THEN entry[1].article_ref ELSE "art. 40, par. 3")>>)))

evaluateDeadEndLength(route, ctx) ==
  LET GDp(e) == Includes(e.context, "F5G/F5D")
      GenP(e) == Includes(e.context, "sasedni pomeshteniya F5V") \/ Includes(e.context, "F1-F4")
  IN  IF ~route.has_dead_end \/ route.dead_end_length_m = Undef THEN <<>>
      ELSE
        Const(ctx.datasets.tables.dead_end_limits, LAMBDA deadEndLimits :
        Const(FromSpaceCategory(route, ctx), LAMBDA cat :
        Const(IF cat \in {"F5G", "F5D"} THEN Find(deadEndLimits, GDp)
              ELSE Find(deadEndLimits, GenP), LAMBDA entry :
        Const(IF entry # <<>> THEN entry[1].max_distance_m ELSE DefaultMaxDeadEnd,
              LAMBDA maxDeadEnd :
        Const(IF entry # <<>> THEN entry[1].article_ref ELSE "art. 40, par. 3",
              LAMBDA articleRef :
        Const(IF route.dead_end_length_m <= maxDeadEnd THEN "PASS" ELSE "FAIL",
              LAMBDA status :
          <<Finding("EGR-TRAVEL-002", status, SeverityOf(status), "route", route.id,
                    route.dead_end_length_m, maxDeadEnd, articleRef)>>))))))

evaluateTravelDistance(ctx) ==
  LET PerRoute(route) == evaluateRouteDistance(route, ctx) \o evaluateDeadEndLength(route, ctx)
  IN  ConcatMap(ctx.project.routes, PerRoute)

(* ------------------------------------------------------------------ *)
(* Stairs (rules/stairs.ts)                                           *)
(* Required stair widths are computed in hundredths of a centimetre.  *)
(* ------------------------------------------------------------------ *)

getOccupantsServedByStair(stair, ctx) ==
  LET OnFloor(space) == Contains(stair.serves_floors, space.floor)
  IN  TotalOccupantsOf(Filter(ctx.project.spaces, OnFloor), ctx)

\* let minWidth = 0.9
StairMinWidth == 9000
\* spiral, totalOccupants <= 50: minWidth = 1.2
SpiralMinWidthSmall == 12000
\* spiral, totalOccupants > 50: minWidth = 1.5
SpiralMinWidthLarge == 15000
\* if (totalOccupants <= 50)
SpiralOccupants == 50
\* if (totalOccupants > 200)
StairLargeOccupants == 200
\* widthPer100 = hasUnderground ? 1.2 : 0.8, per occupant
WidthPerOccupantUnderground == 120
WidthPerOccupantAbove == 80
\* if (stair.width_m > 2.4)
StairMaxWidth == 240

\* minWidth of evaluateStairWidth, in hundredths of a centimetre
StairRequiredWidth(stair, ctx) ==
  LET UgServed(s) == Contains(stair.serves_floors, s.floor) /\ s.is_underground
  IN  Const(getOccupantsServedByStair(stair, ctx), LAMBDA totalOccupants :
        IF stair.type = "spiral"
          THEN (IF totalOccupants <= SpiralOccupants THEN SpiralMinWidthSmall
                ELSE SpiralMinWidthLarge)
        ELSE IF totalOccupants > StairLargeOccupants
          THEN Const(Some(ctx.project.spaces, UgServed), LAMBDA hasUnderground :
               Const(IF hasUnderground THEN WidthPerOccupantUnderground
                     ELSE WidthPerOccupantAbove, LAMBDA widthPer100 :
                 Max2(StairMinWidth, totalOccupants * widthPer100)))
        ELSE StairMinWidth)

\* Math.round(minWidth * 100) / 100, in centimetres
RoundToCm(w) == (w + 50) \div 100

StairArticle(stair, ctx) ==
  LET UgServed(s) == Contains(stair.serves_floors, s.floor) /\ s.is_underground
  IN  Const(getOccupantsServedByStair(stair, ctx), LAMBDA totalOccupants :
        IF stair.type = "spiral"
          THEN (IF totalOccupants <= SpiralOccupants THEN "art. 52, par. 1"
                ELSE "art. 52, par. 2")
        ELSE IF totalOccupants > StairLargeOccupants
          THEN (IF Some(ctx.project.spaces, UgServed) THEN "art. 45, par. 1, p. 2"
                ELSE "art. 45, par. 1, p. 1")
        ELSE "art. 45")

\* (totalOccupants / 100) * widthPer100 is a product of IEEE-754 doubles. The
\* occupant totals of 201..1000 for which that double is greater than the
\* double of the two-decimal product (210 gives 1.6800000000000002 against
\* 1.68), with widthPer100 = 0.8
ProductRoundsUpAbove ==
  {210, 220, 235, 245, 285, 295, 300, 310, 320, 345, 350, 360, 370, 415,
    420, 425, 440, 445, 465, 470, 475, 490, 495, 565, 570, 575, 590, 595,
    600, 615, 620, 640, 690, 695, 700, 705, 715, 720, 725, 740, 745, 765,
    805, 815, 825, 830, 840, 850, 855, 865, 880, 890, 905, 930, 940, 950,
    955, 965, 975, 980, 990 }

\* The same totals with widthPer100 = 1.2
ProductRoundsUpUnderground ==
  {515, 905 }

\* Whether minWidth is a double just above the two-decimal product
MinWidthRoundsUp(stair, ctx) ==
  LET UgServed(s) == Contains(stair.serves_floors, s.floor) /\ s.is_underground
  IN  Const(getOccupantsServedByStair(stair, ctx), LAMBDA totalOccupants :
        /\ stair.type # "spiral"
        /\ totalOccupants > StairLargeOccupants
        /\ totalOccupants \in (IF Some(ctx.project.spaces, UgServed)
                                THEN ProductRoundsUpUnderground
                                ELSE ProductRoundsUpAbove))

\* stair.width_m >= minWidth, both doubles; width_m is a two-decimal number
StairWidthSuffices(stair, ctx) ==
  Const(StairRequiredWidth(stair, ctx), LAMBDA minWidth :
    \/ stair.width_m * 100 > minWidth
    \/ stair.width_m * 100 = minWidth /\ ~MinWidthRoundsUp(stair, ctx))

evaluateStairWidth(stair, ctx) ==
  Const(StairRequiredWidth(stair, ctx), LAMBDA minWidth :
  Const(IF StairWidthSuffices(stair, ctx) THEN "PASS" ELSE "FAIL", LAMBDA status :
    <<Finding("EGR-STAIR-001", status, SeverityOf(status), "stair", stair.id,
              stair.width_m, RoundToCm(minWidth), StairArticle(stair, ctx))>>
    \o (IF stair.width_m > StairMaxWidth
          THEN <<Finding("EGR-STAIR-002", "REVIEW", "WARNING", "stair", stair.id,
                         stair.width_m, StairMaxWidth, "art. 45, par. 7")>>
          ELSE <<>>)))

\* let minStepWidth = 0.25; spiral: 0.23
MinStepWidth == 25
MinStepWidthSpiral == 23
\* maxStepHeight = stair.type === 'external' ? 0.25 : 0.22
MaxStepHeight == 22
MaxStepHeightExternal == 25

\* Variant: the step width of a spiral stair is held to the general minimum
evaluateStairStepsOneMinimum(stair, ctx) ==
  LET wStatus == IF stair.step_width_m >= MinStepWidth THEN "PASS" ELSE "FAIL"
      stepW == IF stair.step_width_m # Undef
                 THEN <<Finding("EGR-STAIR-003", wStatus, SeverityOf(wStatus), "stair",
                                stair.id, stair.step_width_m, MinStepWidth,
                                "art. 47, par. 4")>>
                 ELSE <<>>
      maxStepHeight == IF stair.type = "external" THEN MaxStepHeightExternal
                       ELSE MaxStepHeight
      hStatus == IF stair.step_height_m <= maxStepHeight THEN "PASS" ELSE "FAIL"
      stepH == IF stair.step_height_m # Undef
                 THEN <<Finding("EGR-STAIR-004", hStatus, SeverityOf(hStatus), "stair",
                                stair.id, stair.step_height_m, maxStepHeight,
                                "art. 47, par. 4")>>
                 ELSE <<>>
  IN  stepW \o stepH

evaluateStairSteps(stair, ctx) ==
  LET minStepWidth == IF stair.type = "spiral" THEN MinStepWidthSpiral ELSE MinStepWidth
      wStatus == IF stair.step_width_m >= minStepWidth THEN "PASS" ELSE "FAIL"
      stepW == IF stair.step_width_m # Undef
                 THEN <<Finding("EGR-STAIR-003", wStatus, SeverityOf(wStatus), "stair",
                                stair.id, stair.step_width_m, minStepWidth,
                                IF stair.type = "spiral" THEN "art. 52, par. 1, p. 1"
                                ELSE "art. 47, par. 4")>>
                 ELSE <<>>
      maxStepHeight == IF stair.type = "external" THEN MaxStepHeightExternal
                       ELSE MaxStepHeight
      hStatus == IF stair.step_height_m <= maxStepHeight THEN "PASS" ELSE "FAIL"
      stepH == IF stair.step_height_m # Undef
                 THEN <<Finding("EGR-STAIR-004", hStatus, SeverityOf(hStatus), "stair",
                                stair.id, stair.step_height_m, maxStepHeight,
                                IF stair.type = "external" THEN "art. 51, par. 2"
                                ELSE "art. 47, par. 4")>>
                 ELSE <<>>
  IN  stepW \o stepH

\* stair.serves_floors.length > 3
LightingFloors == 3

\* Variant: a smoke vent does not excuse the missing natural light
evaluateStairLightingIgnoringVent(stair, ctx) ==
  IF stair.type = "enclosed" /\ Len(stair.serves_floors) > 3 /\ ~stair.is_naturally_lit
    THEN <<Finding("EGR-STAIR-005", "FAIL", "BLOCKER", "stair", stair.id,
                   Null, Null, "art. 50, par. 2")>>
  ELSE <<>>

\* Variant: the lighting failure is reported as a warning
evaluateStairLightingAsWarning(stair, ctx) ==
  IF /\ stair.type = "enclosed"
     /\ Len(stair.serves_floors) > 3
     /\ ~stair.is_naturally_lit
     /\ ~stair.has_smoke_vent
    THEN <<Finding("EGR-STAIR-005", "FAIL", "WARNING", "stair", stair.id,
                   Null, Null, "art. 50, par. 2")>>
    ELSE <<>>

evaluateStairLighting(stair, ctx) ==
  IF /\ stair.type = "enclosed"
     /\ Len(stair.serves_floors) > LightingFloors
     /\ ~stair.is_naturally_lit
     /\ ~stair.has_smoke_vent
    THEN <<Finding("EGR-STAIR-005", "FAIL", "BLOCKER", "stair", stair.id,
                   Null, Null, "art. 50, par. 2")>>
    ELSE <<>>

evaluateStairs(ctx) ==
  LET PerStair(stair) == evaluateStairWidth(stair, ctx)
                           \o evaluateStairSteps(stair, ctx)
                           \o evaluateStairLighting(stair, ctx)
  IN  ConcatMap(ctx.project.stairs, PerStair)

(* ------------------------------------------------------------------ *)
(* Evaluator (evaluator.ts)                                           *)
(* ------------------------------------------------------------------ *)

\* Array.filter(test).length
Count(s, P(_)) == Len(SelectSeq(s, P))

\* Variant: total_rules leaves the findings under review out
computeSummaryWithoutReview(findings) ==
  LET IsPass(f) == f.status = "PASS"
      IsFail(f) == f.status = "FAIL"
      IsReview(f) == f.status = "REVIEW"
      IsBlocker(f) == f.severity = "BLOCKER" /\ f.status = "FAIL"
  IN  [total_rules |-> Count(findings, IsPass) + Count(findings, IsFail),
       passed |-> Count(findings, IsPass),
       failed |-> Count(findings, IsFail),
       review |-> Count(findings, IsReview),
       blockers |-> Count(findings, IsBlocker)]

computeSummary(findings) ==
  LET IsPass(f) == f.status = "PASS"
      IsFail(f) == f.status = "FAIL"
      IsReview(f) == f.status = "REVIEW"
      IsBlocker(f) == f.severity = "BLOCKER" /\ f.status = "FAIL"
  IN  [total_rules |-> Len(findings),
       passed |-> Count(findings, IsPass),
       failed |-> Count(findings, IsFail),
       review |-> Count(findings, IsReview),
       blockers |-> Count(findings, IsBlocker)]

severityOrder(severity) ==
  CASE severity = "BLOCKER" -> 0 [] severity = "WARNING" -> 1 [] severity = "INFO" -> 2

statusOrder(status) ==
  CASE status = "FAIL" -> 0 [] status = "REVIEW" -> 1 [] status = "PASS" -> 2

\* Variant: a comparator without the rule_id tie-break
CompareFindingsWithoutRuleId(a, b) ==
  LET severityDiff == severityOrder(a.severity) - severityOrder(b.severity)
      statusDiff == statusOrder(a.status) - statusOrder(b.status)
  IN  IF severityDiff # 0 THEN severityDiff ELSE statusDiff

\* The comparator handed to Array.prototype.sort
CompareFindings(a, b) ==
  LET severityDiff == severityOrder(a.severity) - severityOrder(b.severity)
      statusDiff == statusOrder(a.status) - statusOrder(b.status)
  IN  IF severityDiff # 0 THEN severityDiff
      ELSE IF statusDiff # 0 THEN statusDiff
      ELSE localeCompare(a.rule_id, b.rule_id)

\* Variant: x goes in front of the elements it compares equal to
InsertSortedInFront(s, x) ==
  LET after == {i \in 1..Len(s) : CompareFindings(s[i], x) >= 0}
      pos == IF after = {} THEN Len(s) + 1 ELSE Min(after)
  IN  SubSeq(s, 1, pos - 1) \o <<x>> \o SubSeq(s, pos, Len(s))

\* Insert x into the sorted sequence s behind every element that does not
\* compare greater than x (Array.prototype.sort is stable).
InsertSorted(s, x) ==
  LET after == {i \in 1..Len(s) : CompareFindings(s[i], x) > 0}
      pos == IF after = {} THEN Len(s) + 1 ELSE Min(after)
  IN  SubSeq(s, 1, pos - 1) \o <<x>> \o SubSeq(s, pos, Len(s))

sortFindings(findings) ==
  LET acc[i \in 0..Len(findings)] ==
        IF i = 0 THEN <<>> ELSE InsertSorted(acc[i - 1], findings[i])
  IN  acc[Len(findings)]

\* The findings evaluate collects from the four rule modules, in call order
CollectFindings(ctx) ==
  evaluateOccupantLoad(ctx) \o evaluateExits(ctx)
    \o evaluateTravelDistance(ctx) \o evaluateStairs(ctx)

\* The result record of evaluate; now is the reading of the clock (new Date())
EvaluationResult(ctx, sortedFindings, now) ==
  [project_id |-> ctx.project.id,
   evaluated_at |-> now,
   dataset_version |-> ctx.datasets.meta.version,
   summary |-> computeSummary(sortedFindings),
   findings |-> sortedFindings]

\* Variant: every finding carries the clock reading
evaluateStamped(ctx, now) ==
  LET sorted == sortFindings(CollectFindings(ctx))
      Stamp(f) == [k \in DOMAIN f \cup {"evaluated_at"} |->
                     IF k = "evaluated_at" THEN now ELSE f[k]]
      stamped == [i \in 1..Len(sorted) |-> Stamp(sorted[i])]
  IN  EvaluationResult(ctx, stamped, now)

evaluate(ctx, now) ==
  EvaluationResult(ctx, sortFindings(CollectFindings(ctx)), now)

\* result.summary.blockers > 0
hasBlockers(ctx, now) ==
  Const(evaluate(ctx, now), LAMBDA result : result.summary.blockers > 0)

\* Variant: every finding that is not PASS is kept
getUnpassedFindings(ctx, now) ==
  LET NotPass(f) == f.status # "PASS"
  IN  Const(evaluate(ctx, now), LAMBDA result : Filter(result.findings, NotPass))

\* result.findings.filter(f => f.status === 'FAIL')
getFailedFindings(ctx, now) ==
  LET IsFail(f) == f.status = "FAIL"
  IN  Const(evaluate(ctx, now), LAMBDA result : Filter(result.findings, IsFail))

(* ------------------------------------------------------------------ *)
(* validateContext (evaluator.ts)                                     *)
(* A context may lack parts. The names of the parts that are null or  *)
(* undefined are listed in its field absent; a context without that   *)
(* field lacks nothing. The value stored at an absent part is never   *)
(* read.                                                              *)
(* ------------------------------------------------------------------ *)

Absent(ctx) == IF "absent" \in DOMAIN ctx THEN ctx.absent ELSE {}

\* An entry of errors: the text with the ids it names
ValidationError(message, subject, reference) ==
  [message |-> message, subject |-> subject, reference |-> reference]

\* The return value { valid, errors }
Validation(valid, errors) == [outcome |-> "returned", valid |-> valid, errors |-> errors]

\* Reading a property of undefined or null: the call throws; pushed is the
\* local errors array at that moment, which the caller never receives
TypeError(pushed) == [outcome |-> "TypeError", pushed |-> pushed]

\* new Set(ctx.project.spaces.map(s => s.id)).has(id)
spaceIdsHas(project, id) == \E i \in 1..Len(project.spaces) : project.spaces[i].id = id

\* new Set(ctx.project.exits.map(e => e.id)).has(id)
exitIdsHas(project, id) == \E i \in 1..Len(project.exits) : project.exits[i].id = id

\* spaceIds.size !== ctx.project.spaces.length
DuplicateSpaceIds(project) ==
  Cardinality({project.spaces[i].id : i \in 1..Len(project.spaces)}) # Len(project.spaces)

\* The body of the loop over the routes
RouteReferenceErrors(route, project) ==
  (IF ~spaceIdsHas(project, route.from_space_id)
     THEN <<ValidationError("Route references unknown space", route.id, route.from_space_id)>>
     ELSE <<>>)
  \o (IF ~exitIdsHas(project, route.to_exit_id)
        THEN <<ValidationError("Route references unknown exit", route.id, route.to_exit_id)>>
        ELSE <<>>)

\* Variant: an unknown space id is reported once per exit
ExitReferenceErrorsOnce(exit, project) ==
  LET Unknown(k) == /\ ~spaceIdsHas(project, exit.serves_space_ids[k])
                    /\ \A j \in 1..(k - 1) : exit.serves_space_ids[j] # exit.serves_space_ids[k]
      Error(k) == IF Unknown(k)
                    THEN <<ValidationError("Exit references unknown space", exit.id,
                                           exit.serves_space_ids[k])>>
                  ELSE <<>>
  IN  ConcatMap([k \in 1..Len(exit.serves_space_ids) |-> k], Error)

\* The body of the loop over the exits
ExitReferenceErrors(exit, project) ==
  LET Error(spaceId) == IF ~spaceIdsHas(project, spaceId)
                          THEN <<ValidationError("Exit references unknown space", exit.id, spaceId)>>
                        ELSE <<>>
  IN  ConcatMap(exit.serves_space_ids, Error)

\* The errors pushed before the dataset is looked at
ProjectErrors(ctx) ==
  LET OfRoute(route) == RouteReferenceErrors(route, ctx.project)
      OfExit(exit) == ExitReferenceErrors(exit, ctx.project)
  IN  (IF "building" \in Absent(ctx)
         THEN <<ValidationError("Building data is missing", "", "")>> ELSE <<>>)
      \o (IF Len(ctx.project.spaces) = 0
            THEN <<ValidationError("At least one space is required", "", "")>> ELSE <<>>)
      \o (IF DuplicateSpaceIds(ctx.project)
            THEN <<ValidationError("Duplicate space IDs found", "", "")>> ELSE <<>>)
      \o ConcatMap(ctx.project.routes, OfRoute)
      \o ConcatMap(ctx.project.exits, OfExit)

\* The errors pushed before the statement that throws: ctx.project.spaces.map
\* (line 111) when spaces is absent, else the loop over the routes when routes is
\* absent, else ctx.project.exits.map inside the first turn of that loop or, with
\* no route, the loop over the exits
ErrorsBeforeThrow(ctx) ==
  (IF "building" \in Absent(ctx)
     THEN <<ValidationError("Building data is missing", "", "")>> ELSE <<>>)
  \o (IF "spaces" \in Absent(ctx)
        THEN <<ValidationError("At least one space is required", "", "")>>
      ELSE (IF Len(ctx.project.spaces) = 0
              THEN <<ValidationError("At least one space is required", "", "")>>
              ELSE <<>>)
           \o (IF DuplicateSpaceIds(ctx.project)
                 THEN <<ValidationError("Duplicate space IDs found", "", "")>> ELSE <<>>)
           \o (IF "routes" \in Absent(ctx) THEN <<>>
               ELSE IF Len(ctx.project.routes) = 0 THEN <<>>
               ELSE IF ~spaceIdsHas(ctx.project, ctx.project.routes[1].from_space_id)
                 THEN <<ValidationError("Route references unknown space",
                                        ctx.project.routes[1].id,
                                        ctx.project.routes[1].from_space_id)>>
               ELSE <<>>))

\* Variant: an absent list of spaces, routes or exits is read as an empty list
validateContextGuarded(ctx) ==
  IF "project" \in Absent(ctx)
    THEN Validation(FALSE, <<ValidationError("Project data is missing", "", "")>>)
  ELSE IF Absent(ctx) \cap {"spaces", "routes", "exits"} # {}
    THEN Validation(FALSE, ErrorsBeforeThrow(ctx))
  ELSE Const(ProjectErrors(ctx), LAMBDA errors :
         IF "datasets" \in Absent(ctx)
           THEN Validation(FALSE, errors \o <<ValidationError("Dataset is missing", "", "")>>)
         ELSE Const(errors \o (IF "occupant_load_table_8" \in Absent(ctx)
                                 THEN <<ValidationError("Occupant load table is missing from dataset", "", "")>>
                                 ELSE <<>>), LAMBDA all :
                Validation(Len(all) = 0, all)))

\* Variant: the dataset is checked although the project is absent
validateContextWithoutShortCircuit(ctx) ==
  IF "project" \in Absent(ctx)
    THEN Validation(FALSE, <<ValidationError("Project data is missing", "", "")>>
                           \o (IF "datasets" \in Absent(ctx)
                                 THEN <<ValidationError("Dataset is missing", "", "")>>
                                 ELSE <<>>))
  ELSE IF Absent(ctx) \cap {"spaces", "routes", "exits"} # {}
    THEN TypeError(ErrorsBeforeThrow(ctx))
  ELSE Const(ProjectErrors(ctx), LAMBDA errors :
         IF "datasets" \in Absent(ctx)
           THEN Validation(FALSE, errors \o <<ValidationError("Dataset is missing", "", "")>>)
         ELSE Const(errors \o (IF "occupant_load_table_8" \in Absent(ctx)
                                 THEN <<ValidationError("Occupant load table is missing from dataset", "", "")>>
                                 ELSE <<>>), LAMBDA all :
                Validation(Len(all) = 0, all)))

validateContext(ctx) ==
  IF "project" \in Absent(ctx)
    THEN Validation(FALSE, <<ValidationError("Project data is missing", "", "")>>)
  \* ctx.project.spaces.map, for (... of ctx.project.routes), ctx.project.exits.map
  ELSE IF Absent(ctx) \cap {"spaces", "routes", "exits"} # {}
    THEN TypeError(ErrorsBeforeThrow(ctx))
  ELSE Const(ProjectErrors(ctx), LAMBDA errors :
         IF "datasets" \in Absent(ctx)
           THEN Validation(FALSE, errors \o <<ValidationError("Dataset is missing", "", "")>>)
         ELSE Const(errors \o (IF "occupant_load_table_8" \in Absent(ctx)
                                 THEN <<ValidationError("Occupant load table is missing from dataset", "", "")>>
                                 ELSE <<>>), LAMBDA all :
                Validation(Len(all) = 0, all)))

(* ------------------------------------------------------------------ *)
(* Inputs: datasets                                                   *)
(* ------------------------------------------------------------------ *)

OccRow(id, fc, space_type, factor, ref) ==
  [id |-> id, functional_class |-> fc, space_type |-> space_type,
   area_per_person_m2 |-> factor, article_ref |-> ref]

MinExitsRow(group, category, lo, hi, max_area, ug_only, min_exits, ref) ==
  [functional_class_group |-> group, category |-> category, min_occupants |-> lo,
   max_occupants |-> hi, max_area_m2 |-> max_area, underground_only |-> ug_only,
   min_exits |-> min_exits, article_ref |-> ref]

TravelRow(id, context, evacuation_type, max_distance, ref) ==
  [id |-> id, context |-> context, evacuation_type |-> evacuation_type,
   max_distance_m |-> max_distance, article_ref |-> ref]

DeadEndRow(id, context, max_distance, ref) ==
  [id |-> id, context |-> context, max_distance_m |-> max_distance, article_ref |-> ref]

WidthRow(element_type, context, min_width, max_width, ref) ==
  [element_type |-> element_type, context |-> context, min_width_m |-> min_width,
   max_width_m |-> max_width, article_ref |-> ref]

OccupantLoadTable ==
  << OccRow(1, "F3.1", "Targoviya, kota teren", 200, "t8-1"),
     OccRow(2, "F3.1", "Targoviya, izvan kota teren", 300, "t8-2"),
     OccRow(3, "F2.1", "Muzei", 135, "t8-3"),
     OccRow(4, "general", "Ofisi", 500, "t8-4") >>

MinExitsTable ==
  << MinExitsRow("F1-F4", NoCat, 1, 15, 30000, TRUE, 1, "a42-ug"),
     MinExitsRow("F1-F4", NoCat, 1, 50, Null, FALSE, 1, "a42-1"),
     MinExitsRow("F1-F4", NoCat, 51, 200, Null, FALSE, 2, "a42-2"),
     MinExitsRow("F1-F4", NoCat, 201, Null, Null, FALSE, 3, "a42-3"),
     MinExitsRow("F5", "F5A", 1, 5, 10000, FALSE, 1, "a42-5a"),
     MinExitsRow("F5", "F5V", 1, 50, 40000, FALSE, 1, "a42-5v"),
     MinExitsRow("F5", NoCat, 16, 200, Null, FALSE, 2, "a42-5m"),
     MinExitsRow("F5", NoCat, 201, Null, Null, FALSE, 3, "a42-5l") >>

TravelTable ==
  << TravelRow(1, "Vatre v pomeshtenie", "single_direction", 2000, "a44-1"),
     TravelRow(2, "Vatre v pomeshtenie", "multiple_directions", 4000, "a44-2"),
     TravelRow(3, "Do stalbishte/zashtitena zona", "single_direction", 2000, "a44-3"),
     TravelRow(4, "Do stalbishte/zashtitena zona", "multiple_directions", 4000, "a44-4"),
     TravelRow(5, "F5G/F5D ednoetazhna sgrada", "single_direction", 5000, "a44-5"),
     TravelRow(6, "F5G/F5D ednoetazhna sgrada", "multiple_directions", 10000, "a44-6"),
     TravelRow(7, "F5V s PGI i PIS", "single_direction", 3000, "a44-7"),
     TravelRow(8, "F5V s PGI i PIS", "multiple_directions", 6000, "a44-8") >>

DeadEndTable ==
  << DeadEndRow(1, "Pomeshteniya F1-F4", 4000, "a40-1"),
     DeadEndRow(2, "Pomeshteniya F5G/F5D", 6000, "a40-2") >>

MinWidthTable ==
  << WidthRow("exit_door", "Do 15 choveka", Null, Null, "a41-1"),
     WidthRow("exit_door", "16-50 choveka", 90, Null, "a41-2"),
     WidthRow("exit_door", "51-200 choveka", 100, 240, "a41-3"),
     WidthRow("exit_door", "Nad 200 choveka", 120, 240, "a41-4"),
     WidthRow("corridor", "Nadzemni etazhi", Null, Null, "a41-5"),
     WidthRow("spiral_stair", "16-50 choveka", 120, Null, "a52-1"),
     WidthRow("spiral_stair", "Nad 50 choveka", 150, Null, "a52-2") >>

Tables(occ, exits, travel, deadEnd, widths) ==
  [occupant_load_table_8 |-> occ, min_exits_by_occupants |-> exits,
   max_travel_distance |-> travel, dead_end_limits |-> deadEnd, min_widths |-> widths]

\* The dataset as shipped
DatasetFull ==
  [meta |-> [version |-> "iz-1971-v2024-01"],
   tables |-> Tables(OccupantLoadTable, MinExitsTable, TravelTable, DeadEndTable,
                     MinWidthTable)]

\* A dataset that lacks rows: no general office factor, no exit rule for more than
\* 50 occupants, no default single-direction distance, no door band above 200 and
\* a door band without a minimum width
DatasetSparse ==
  [meta |-> [version |-> "sparse"],
   tables |-> Tables(SubSeq(OccupantLoadTable, 1, 3),
                     SubSeq(MinExitsTable, 1, 2) \o SubSeq(MinExitsTable, 5, 6),
                     SubSeq(TravelTable, 2, 8),
                     SubSeq(DeadEndTable, 2, 2),
                     SubSeq(MinWidthTable, 1, 2)
                       \o << WidthRow("exit_door", "51-200 choveka", 0, 100, "a41-3") >>)]

\* A dataset whose distance table has the default rows and a special row for
\* one evacuation type only of each kind
DatasetFewSpecial ==
  [meta |-> [version |-> "few-special"],
   tables |-> Tables(OccupantLoadTable, MinExitsTable,
                     SubSeq(TravelTable, 1, 4) \o SubSeq(TravelTable, 6, 7),
                     SubSeq(DeadEndTable, 1, 1), MinWidthTable)]

\* A dataset whose tables are all empty lists
DatasetEmpty ==
  [meta |-> [version |-> "empty"],
   tables |-> Tables(<<>>, <<>>, <<>>, <<>>, <<>>)]

(* ------------------------------------------------------------------ *)
(* Inputs: projects                                                   *)
(* ------------------------------------------------------------------ *)

Building(fc, single, sprinklers, alarm) ==
  [functional_class |-> fc, is_single_storey |-> single,
   has_sprinklers |-> sprinklers, has_fire_alarm |-> alarm]

\* Space attributes; the id is given by the position in the project's list
SpaceAttr(purpose, floor, area, ug, cat, override) ==
  [purpose |-> purpose, floor |-> floor, area_m2 |-> area, is_underground |-> ug,
   fire_hazard_category |-> cat, occupants_override |-> override]

IdOf(prefix, i) == prefix \o ToString(i)

WithId(attr, id) == [x \in {"id"} |-> id] @@ attr

\* A list of attribute records numbered prefix1, prefix2, ...
Numbered(attrs, prefix) == [i \in 1..Len(attrs) |-> WithId(attrs[i], IdOf(prefix, i))]

\* The members of pool at the positions I, in the pool's order
Pick(pool, I) ==
  [k \in 1..Cardinality(I) |->
     pool[CHOOSE i \in I : Cardinality({j \in I : j < i}) = k - 1]]

\* All selections of lo to hi members of pool, in the pool's order
SeqsUpTo(pool, lo, hi) ==
  { Pick(pool, I) : I \in {J \in SUBSET (1..Len(pool)) : Cardinality(J) \in lo..hi} }

Exit(width, serves, panic) ==
  [width_m |-> width, serves_space_ids |-> serves, has_panic_hardware |-> panic]

Route(from, to, length, dead_end, dead_end_length, evacuation_type) ==
  [from_space_id |-> from, to_exit_id |-> to, length_m |-> length,
   has_dead_end |-> dead_end, dead_end_length_m |-> dead_end_length,
   evacuation_type |-> evacuation_type]

Stair(type, width, floors, step_width, step_height, lit, vent) ==
  [type |-> type, width_m |-> width, serves_floors |-> floors,
   step_width_m |-> step_width, step_height_m |-> step_height,
   is_naturally_lit |-> lit, has_smoke_vent |-> vent]

Project(building, spaces, exits, routes, stairs) ==
  [id |-> "p1", building |-> building, spaces |-> spaces, exits |-> exits,
   routes |-> routes, stairs |-> stairs]

Context(project, datasets) == [project |-> project, datasets |-> datasets]

(* ------------------------------------------------------------------ *)
(* Bounds and input pools                                             *)
(* ------------------------------------------------------------------ *)

MaxSpaces == 2
MaxExits == 2
MaxRoutes == 2
MaxStairs == 1
\* evaluated_at is one of 0..MaxTime
MaxTime == 1

BuildingPlain(fc) == Building(fc, FALSE, FALSE, FALSE)

SpacePool ==
  << SpaceAttr("Office", 0, 5000, FALSE, NoCat, Undef),
    SpaceAttr("Office", 1, 10100, FALSE, NoCat, Undef),
    SpaceAttr("Hall", 0, 50000, FALSE, "F5V", Undef),
    SpaceAttr("Store", -1, 7500, TRUE, NoCat, 0),
    SpaceAttr("Hall", 1, 2000, FALSE, "F5A", 101),
    SpaceAttr("Teren", 1, 10100, FALSE, NoCat, Undef) >>

ExitPool ==
  << Exit(90, <<"s1">>, FALSE),
    Exit(80, <<"s1", "s2">>, FALSE),
    Exit(100, <<"s2">>, FALSE),
    Exit(250, <<"s2", "s1">>, TRUE),
    Exit(120, <<"s2">>, TRUE),
    Exit(90, <<"s3">>, FALSE) >>

RoutePool ==
  << Route("s1", "e1", 1500, FALSE, Undef, "single_direction"),
    Route("s1", "e1", 2000, TRUE, 2000, "single_direction"),
    Route("s1", "e1", 4500, TRUE, 4500, "multiple_directions"),
    Route("s9", "e1", 10000, TRUE, Undef, "multiple_directions"),
    Route("s1", "e1", 3000, FALSE, 500, "single_direction") >>

StairPool ==
  << Stair("enclosed", 120, <<0, 1, 2>>, 30, 17, TRUE, FALSE),
    Stair("enclosed", 120, <<0, 1, 2, 3>>, Undef, Undef, FALSE, FALSE),
    Stair("enclosed", 80, <<0, 1, 2, 3>>, 24, 23, FALSE, TRUE),
    Stair("open", 250, <<0, 1, 2, 3>>, 25, 22, FALSE, FALSE),
    Stair("external", 162, <<0, 1>>, Undef, 25, TRUE, TRUE),
    Stair("external", 161, <<1, -1>>, 23, 26, FALSE, FALSE),
    Stair("spiral", 120, <<0>>, 23, Undef, TRUE, TRUE),
    Stair("spiral", 149, <<0, 1>>, 22, 22, FALSE, FALSE),
    Stair("smoke_protected", 242, <<-1, 0, 1>>, Undef, Undef, TRUE, TRUE),
    Stair("enclosed", 90, <<0, 1, 2>>, Undef, Undef, FALSE, FALSE),
    Stair("enclosed", 120, <<0, 1, 2, 3>>, Undef, Undef, TRUE, FALSE),
    Stair("open", 168, <<0, 1>>, Undef, Undef, TRUE, TRUE),
    Stair("open", 167, <<0, 1>>, Undef, Undef, TRUE, TRUE) >>

AllSpaceIds(n) == [i \in 1..n |-> IdOf("s", i)]

\* Exit layouts for a project of n spaces: none, one door for all spaces,
\* or a door for the first space and a door for all spaces
ExitLayouts(n) ==
  { <<>>,
    Numbered(<< Exit(90, AllSpaceIds(n), FALSE) >>, "e"),
    Numbered(<< Exit(120, <<"s1">>, TRUE), Exit(90, AllSpaceIds(n), FALSE) >>, "e") }

\* The functional classes and datasets the projects of SpaceContexts combine
ClassAndDataset ==
  { <<"F4.1", DatasetFull>>, <<"F3.1", DatasetFull>>, <<"F5.1", DatasetFull>>,
    <<"F4.1", DatasetSparse>>, <<"F3.1", DatasetEmpty>> }

\* Projects that vary the spaces
SpaceContexts ==
  { Context(Project(BuildingPlain(fc), Numbered(sp, "s"), ex, <<>>, <<>>), ds) :
      <<fc, ds, sp, ex>> \in
        UNION { {<<f, d, s, e>> : e \in ExitLayouts(Len(s))} :
                  <<f, d, s>> \in
                    { <<c[1], c[2], q>> : c \in ClassAndDataset,
                                          q \in SeqsUpTo(SpacePool, 1, MaxSpaces) } } }

FixedSpaces ==
  { << SpaceAttr("Office", 0, 5000, FALSE, NoCat, Undef),
       SpaceAttr("Hall", 0, 50000, FALSE, "F5V", Undef) >>,
    << SpaceAttr("Hall", 1, 2000, FALSE, "F5A", 101),
       SpaceAttr("Store", -1, 7500, TRUE, NoCat, 0) >> }

\* Projects that vary the exits
ExitContexts ==
  { Context(Project(BuildingPlain(fc), Numbered(sp, "s"), Numbered(ex, "e"), <<>>, <<>>), ds) :
      <<fc, ds, sp, ex>> \in {"F4.1", "F5.1"}
                               \X {DatasetFull, DatasetSparse, DatasetEmpty}
                               \X FixedSpaces
                               \X SeqsUpTo(ExitPool, 0, MaxExits) }

\* Projects that vary the routes, the hazard category of the source space and
\* the building's conditions
RouteContexts ==
  { Context(Project(Building("F5.1", flags[1], flags[2], flags[3]),
                    Numbered(<< SpaceAttr("Hall", 0, 5000, FALSE, cat, Undef) >>, "s"),
                    Numbered(<< Exit(90, <<"s1">>, FALSE) >>, "e"),
                    Numbered(rt, "r"), <<>>), ds) :
      <<flags, cat, ds, rt>> \in
        {<<FALSE, FALSE, FALSE>>, <<TRUE, FALSE, FALSE>>, <<FALSE, TRUE, TRUE>>,
         <<FALSE, TRUE, FALSE>>}
          \X {NoCat, "F5V", "F5G", "F5D"}
          \X {DatasetFull, DatasetSparse, DatasetEmpty, DatasetFewSpecial}
          \X SeqsUpTo(RoutePool, 0, MaxRoutes) }

StairSpaces ==
  { << SpaceAttr("Office", 0, 5000, FALSE, NoCat, Undef),
       SpaceAttr("Office", 1, 10100, FALSE, NoCat, 41) >>,
    << SpaceAttr("Hall", 0, 50000, FALSE, NoCat, Undef),
       SpaceAttr("Hall", 1, 50000, FALSE, NoCat, 101) >>,
    << SpaceAttr("Hall", 0, 50000, FALSE, NoCat, 203),
       SpaceAttr("Store", -1, 7500, TRUE, NoCat, Undef) >>,
    << SpaceAttr("Hall", 0, 50000, FALSE, NoCat, 203),
       SpaceAttr("Hall", 1, 2000, FALSE, NoCat, 7) >> }

\* Projects that vary the stairs
StairContexts ==
  { Context(Project(BuildingPlain("F4.1"), Numbered(sp, "s"),
                    Numbered(<< Exit(90, <<"s1">>, FALSE) >>, "e"),
                    <<>>, Numbered(st, "st")), DatasetFull) :
      <<sp, st>> \in StairSpaces \X SeqsUpTo(StairPool, 0, MaxStairs) }

\* Occupant-load tables with and without the retail rows, the retail variants
\* and the general office row
OccupantLoadTables ==
  { OccupantLoadTable,
    SubSeq(OccupantLoadTable, 3, 4),
    SubSeq(OccupantLoadTable, 1, 1) \o SubSeq(OccupantLoadTable, 4, 4),
    SubSeq(OccupantLoadTable, 2, 4),
    << OccRow(1, "F3.1", "Drugi", 400, "t8-1"),
       OccRow(2, "F3.1", "Sklad", 450, "t8-2"),
       OccRow(4, "general", "Ofisi", 500, "t8-4") >>,
    << OccRow(3, "F2.1", "Muzei", 135, "t8-3"),
       OccRow(5, "F2.1", "Muzei, hall", 150, "t8-5") >> }

\* Projects of one space that vary the building's class and the occupant-load table
FactorContexts ==
  { Context(Project(BuildingPlain(fc), Numbered(<< SpacePool[n] >>, "s"),
                    Numbered(<< Exit(90, <<"s1">>, FALSE) >>, "e"), <<>>, <<>>),
            [DatasetFull EXCEPT !.tables.occupant_load_table_8 = table]) :
      <<fc, n, table>> \in {"F3.1", "F2.1", "F4.1"} \X {1, 5, 6} \X OccupantLoadTables }

\* The most parts a context lacks
MaxAbsent == 2

\* The parts of a context that validateContext tests for presence
ContextParts ==
  {"project", "building", "spaces", "routes", "exits", "datasets", "occupant_load_table_8"}

\* Lists of spaces: none, one, two, and two with the same id
ValidationSpaces ==
  { <<>>,
    << WithId(SpaceAttr("Office", 0, 5000, FALSE, NoCat, Undef), "s1") >>,
    << WithId(SpaceAttr("Office", 0, 5000, FALSE, NoCat, Undef), "s1"),
       WithId(SpaceAttr("Office", 1, 10100, FALSE, NoCat, Undef), "s2") >>,
    << WithId(SpaceAttr("Office", 0, 5000, FALSE, NoCat, Undef), "s1"),
       WithId(SpaceAttr("Office", 1, 10100, FALSE, NoCat, Undef), "s1") >> }

\* Lists of routes with known and unknown ends
ValidationRoutes ==
  { <<>>,
    << WithId(Route("s1", "e1", 1500, FALSE, Undef, "single_direction"), "r1") >>,
    << WithId(Route("s9", "e1", 1500, FALSE, Undef, "single_direction"), "r1") >>,
    << WithId(Route("s2", "e9", 1500, FALSE, Undef, "single_direction"), "r1") >>,
    << WithId(Route("s9", "e9", 1500, FALSE, Undef, "single_direction"), "r1"),
       WithId(Route("s1", "e1", 1500, FALSE, Undef, "single_direction"), "r2") >> }

\* Lists of exits serving known and unknown spaces
ValidationExits ==
  { <<>>,
    << WithId(Exit(90, <<"s1">>, FALSE), "e1") >>,
    << WithId(Exit(90, <<"s1", "s2">>, FALSE), "e1") >>,
    << WithId(Exit(90, <<"s9", "s1", "s9">>, FALSE), "e1") >>,
    << WithId(Exit(90, <<"s8">>, FALSE), "e1"),
       WithId(Exit(90, <<"s1", "s9">>, FALSE), "e2") >> }

\* Contexts that lack up to MaxAbsent parts; an absent list is stored empty
ValidationContexts ==
  { [project |-> Project(BuildingPlain("F4.1"),
                         IF {"project", "spaces"} \cap a # {} THEN <<>> ELSE sp,
                         IF {"project", "exits"} \cap a # {} THEN <<>> ELSE ex,
                         IF {"project", "routes"} \cap a # {} THEN <<>> ELSE ro,
                         <<>>),
     datasets |-> IF {"datasets", "occupant_load_table_8"} \cap a # {} THEN DatasetEmpty
                  ELSE DatasetFull,
     absent |-> a] :
      <<a, sp, ro, ex>> \in {b \in SUBSET ContextParts : Cardinality(b) <= MaxAbsent}
                            \X ValidationSpaces \X ValidationRoutes \X ValidationExits }

Contexts ==
  SpaceContexts \cup ExitContexts \cup RouteContexts \cup StairContexts \cup FactorContexts

(* ------------------------------------------------------------------ *)
(* State machine: a caller holding one evaluation context calls the   *)
(* engine's public functions; ret is what the last call returned.     *)
(* ------------------------------------------------------------------ *)

VARIABLES ctx, ret, state, addedResolvable

vars == <<ctx, ret, state, addedResolvable>>

Returned(op, value) == [op |-> op, value |-> value]

\* The rule modules read every part of the context and tell spaces apart by
\* id: they are called on contexts that lack nothing and whose space ids are
\* pairwise distinct
CanEvaluate ==
  /\ Absent(ctx) = {}
  /\ ~DuplicateSpaceIds(ctx.project)

\* The caller has built its context and has not made its call yet
Idle == ret.op = "none"

\* const initialState = { ..., spaces: [], exits: [], routes: [], ... }: the lists
\* of the wizard store that refer to one another by id
initialState == [spaces |-> <<>>, exits |-> <<>>, routes |-> <<>>]

Init ==
  /\ ctx \in Contexts \cup ValidationContexts
  /\ ret = Returned("none", <<>>)
  /\ state = initialState
  /\ addedResolvable = TRUE

CallCalculateTotalOccupants ==
  /\ Idle
  /\ CanEvaluate
  /\ ret' = Returned("calculateTotalOccupants", calculateTotalOccupants(ctx))
  /\ UNCHANGED <<ctx, state, addedResolvable>>

CallEvaluateOccupantLoad ==
  /\ Idle
  /\ CanEvaluate
  /\ ret' = Returned("evaluateOccupantLoad", evaluateOccupantLoad(ctx))
  /\ UNCHANGED <<ctx, state, addedResolvable>>

CallEvaluateExits ==
  /\ Idle
  /\ CanEvaluate
  /\ ret' = Returned("evaluateExits", evaluateExits(ctx))
  /\ UNCHANGED <<ctx, state, addedResolvable>>

CallEvaluateTravelDistance ==
  /\ Idle
  /\ CanEvaluate
  /\ ret' = Returned("evaluateTravelDistance", evaluateTravelDistance(ctx))
  /\ UNCHANGED <<ctx, state, addedResolvable>>

CallEvaluateStairs ==
  /\ Idle
  /\ CanEvaluate
  /\ ret' = Returned("evaluateStairs", evaluateStairs(ctx))
  /\ UNCHANGED <<ctx, state, addedResolvable>>

CallEvaluate ==
  /\ Idle
  /\ CanEvaluate
  /\ \E now \in 0..MaxTime :
       /\ ret' = Returned("evaluate", evaluate(ctx, now))
       /\ UNCHANGED <<ctx, state, addedResolvable>>

CallHasBlockers ==
  /\ Idle
  /\ CanEvaluate
  /\ \E now \in 0..MaxTime :
       /\ ret' = Returned("hasBlockers", hasBlockers(ctx, now))
       /\ UNCHANGED <<ctx, state, addedResolvable>>

CallGetFailedFindings ==
  /\ Idle
  /\ CanEvaluate
  /\ \E now \in 0..MaxTime :
       /\ ret' = Returned("getFailedFindings", getFailedFindings(ctx, now))
       /\ UNCHANGED <<ctx, state, addedResolvable>>

\* The table in its own order or in the opposite order
Reverse(s) == [i \in 1..Len(s) |-> s[Len(s) + 1 - i]]

\* lookupMinExits called for a space as evaluateMinExitsForSpace calls it
CallLookupMinExits ==
  /\ Idle
  /\ CanEvaluate
  /\ \E n \in 1..Len(ctx.project.spaces), reversed \in BOOLEAN :
       LET space == ctx.project.spaces[n]
           table == IF reversed THEN Reverse(ctx.datasets.tables.min_exits_by_occupants)
                    ELSE ctx.datasets.tables.min_exits_by_occupants
           occupants == calculateOccupantLoad(space, ctx).computed_occupants
       IN  ret' = Returned("lookupMinExits",
                           [table |-> table,
                            functionalClass |-> ctx.project.building.functional_class,
                            occupants |-> occupants,
                            area_m2 |-> space.area_m2,
                            isUnderground |-> space.is_underground,
                            fireHazardCategory |-> space.fire_hazard_category,
                            row |-> lookupMinExits(table,
                                                   ctx.project.building.functional_class,
                                                   occupants, space.area_m2,
                                                   space.is_underground,
                                                   space.fire_hazard_category)])
  /\ UNCHANGED <<ctx, state, addedResolvable>>

\* lookupMaxTravelDistance called for a route as evaluateRouteDistance calls
\* it, with either context
CallLookupMaxTravelDistance ==
  /\ Idle
  /\ CanEvaluate
  /\ \E r \in 1..Len(ctx.project.routes), context \in {"room", "corridor"} :
       LET route == ctx.project.routes[r]
           cond == [isSingleStorey |-> ctx.project.building.is_single_storey,
                    hasSprinklers |-> ctx.project.building.has_sprinklers,
                    hasFireAlarm |-> ctx.project.building.has_fire_alarm]
       IN  ret' = Returned("lookupMaxTravelDistance",
                           [evacuationType |-> route.evacuation_type,
                            context |-> context,
                            fireHazardCategory |-> FromSpaceCategory(route, ctx),
                            cond |-> cond,
                            row |-> lookupMaxTravelDistance(
                                      ctx.datasets.tables.max_travel_distance,
                                      route.evacuation_type, context,
                                      FromSpaceCategory(route, ctx), cond)])
  /\ UNCHANGED <<ctx, state, addedResolvable>>

\* lookupOccupantLoadFactor called for a space of the context, with or without
\* the space's purpose and with or without the ground-floor flag
CallLookupOccupantLoadFactor ==
  /\ Idle
  /\ CanEvaluate
  /\ \E n \in 1..Len(ctx.project.spaces),
        withType \in BOOLEAN,
        isGroundFloor \in {"true", "false", "undefined"} :
       LET space == ctx.project.spaces[n]
           spaceType == IF withType THEN space.purpose ELSE ""
       IN  ret' = Returned("lookupOccupantLoadFactor",
                           [functionalClass |-> ctx.project.building.functional_class,
                            spaceType |-> spaceType,
                            isGroundFloor |-> isGroundFloor,
                            row |-> lookupOccupantLoadFactor(
                                      ctx.datasets.tables.occupant_load_table_8,
                                      ctx.project.building.functional_class,
                                      spaceType, isGroundFloor)])
  /\ UNCHANGED <<ctx, state, addedResolvable>>

\* lookupMinWidth called for the occupants of a space of the context, on the
\* table in its own order or in the opposite order
CallLookupMinWidth ==
  /\ Idle
  /\ CanEvaluate
  /\ \E n \in 1..Len(ctx.project.spaces),
        elementType \in {"exit_door", "spiral_stair"},
        reversed \in BOOLEAN :
       LET space == ctx.project.spaces[n]
           table == IF reversed THEN Reverse(ctx.datasets.tables.min_widths)
                    ELSE ctx.datasets.tables.min_widths
           occupants == calculateOccupantLoad(space, ctx).computed_occupants
       IN  ret' = Returned("lookupMinWidth",
                           [table |-> table,
                            elementType |-> elementType,
                            occupants |-> occupants,
                            isUnderground |-> space.is_underground,
                            row |-> lookupMinWidth(table, elementType, occupants,
                                                   space.is_underground)])
  /\ UNCHANGED <<ctx, state, addedResolvable>>

CallValidateContext ==
  /\ Idle
  /\ ret' = Returned("validateContext", validateContext(ctx))
  /\ UNCHANGED <<ctx, state, addedResolvable>>

Next ==
  \/ CallCalculateTotalOccupants
  \/ CallEvaluateOccupantLoad
  \/ CallEvaluateExits
  \/ CallEvaluateTravelDistance
  \/ CallEvaluateStairs
  \/ CallEvaluate
  \/ CallHasBlockers
  \/ CallGetFailedFindings
  \/ CallValidateContext
  \/ CallLookupMinExits
  \/ CallLookupMaxTravelDistance
  \/ CallLookupOccupantLoadFactor
  \/ CallLookupMinWidth

Spec == Init /\ [][Next]_vars

(* ------------------------------------------------------------------ *)
(* Wizard store (store/wizard-store.ts): the form keeps the spaces,   *)
(* exits and routes of the project under edit. state is the store's   *)
(* state; addedResolvable records whether every route and exit added  *)
(* so far named only entities stored at that moment; ret is the last  *)
(* call with the id it returned or, for a removal, the id it was      *)
(* given and whether an entity with that id was stored.               *)
(* ------------------------------------------------------------------ *)

\* The most entities of a kind the form holds
MaxStoredSpaces == 2
MaxStoredExits == 1
MaxStoredRoutes == 1

\* The strings nanoid(8) returns, an id in use included
NanoIds == {"id1", "id2"}

\* The lists of space ids an exit form submits
ServedChoices == {<<>>, <<"id1">>, <<"id2">>, <<"id1", "id2">>}

\* No evaluation context is built while the form is edited
NoContext == [absent |-> ContextParts]

StoredSpaceIds == {state.spaces[i].id : i \in 1..Len(state.spaces)}

StoredExitIds == {state.exits[i].id : i \in 1..Len(state.exits)}

addSpace ==
  /\ Len(state.spaces) < MaxStoredSpaces
  /\ \E id \in NanoIds :
       /\ state' = [state EXCEPT !.spaces = Append(@, [id |-> id])]
       /\ ret' = Returned("addSpace", id)
  /\ UNCHANGED <<ctx, addedResolvable>>

\* Variant: the routes and exits are left as they are
removeSpaceOnly ==
  /\ \E id \in NanoIds :
       LET KeepSpace(s) == s.id # id
       IN  /\ state' = [state EXCEPT !.spaces = Filter(@, KeepSpace)]
           /\ ret' = Returned("removeSpace", [id |-> id, stored |-> id \in StoredSpaceIds])
  /\ UNCHANGED <<ctx, addedResolvable>>

removeSpace ==
  /\ \E id \in NanoIds :
       LET KeepSpace(s) == s.id # id
           KeepRoute(r) == r.from_space_id # id
           KeepId(sid) == sid # id
           Strip(e) == [e EXCEPT !.serves_space_ids = Filter(@, KeepId)]
       IN  /\ state' = [spaces |-> Filter(state.spaces, KeepSpace),
                        routes |-> Filter(state.routes, KeepRoute),
                        exits |-> [k \in 1..Len(state.exits) |-> Strip(state.exits[k])]]
           /\ ret' = Returned("removeSpace", [id |-> id, stored |-> id \in StoredSpaceIds])
  /\ UNCHANGED <<ctx, addedResolvable>>

addExit ==
  /\ Len(state.exits) < MaxStoredExits
  /\ \E id \in NanoIds, serves \in ServedChoices :
       /\ state' = [state EXCEPT
                      !.exits = Append(@, [id |-> id, serves_space_ids |-> serves])]
       /\ ret' = Returned("addExit", id)
       /\ addedResolvable' =
            (addedResolvable /\ \A k \in 1..Len(serves) : serves[k] \in StoredSpaceIds)
  /\ UNCHANGED ctx

removeExit ==
  /\ \E id \in NanoIds :
       LET KeepExit(e) == e.id # id
           KeepRoute(r) == r.to_exit_id # id
       IN  /\ state' = [state EXCEPT !.exits = Filter(@, KeepExit),
                                     !.routes = Filter(@, KeepRoute)]
           /\ ret' = Returned("removeExit", [id |-> id, stored |-> id \in StoredExitIds])
  /\ UNCHANGED <<ctx, addedResolvable>>

addRoute ==
  /\ Len(state.routes) < MaxStoredRoutes
  /\ \E id \in NanoIds, from \in NanoIds, to \in NanoIds :
       /\ state' = [state EXCEPT
                      !.routes = Append(@, [id |-> id, from_space_id |-> from,
                                            to_exit_id |-> to])]
       /\ ret' = Returned("addRoute", id)
       /\ addedResolvable' =
            (addedResolvable /\ from \in StoredSpaceIds /\ to \in StoredExitIds)
  /\ UNCHANGED ctx

removeRoute ==
  /\ \E id \in NanoIds :
       LET KeepRoute(r) == r.id # id
       IN  /\ state' = [state EXCEPT !.routes = Filter(@, KeepRoute)]
           /\ ret' = Returned("removeRoute", [id |-> id, stored |-> \E r \in 1..Len(state.routes) : state.routes[r].id = id])
  /\ UNCHANGED <<ctx, addedResolvable>>

\* reset: () => set(initialState)
reset ==
  /\ state' = initialState
  /\ ret' = Returned("reset", <<>>)
  /\ UNCHANGED <<ctx, addedResolvable>>

StoreInit ==
  /\ ctx = NoContext
  /\ ret = Returned("none", <<>>)
  /\ state = initialState
  /\ addedResolvable = TRUE

StoreNext ==
  \/ addSpace
  \/ removeSpace
  \/ addExit
  \/ removeExit
  \/ addRoute
  \/ removeRoute
  \/ reset

StoreSpec == StoreInit /\ [][StoreNext]_vars

(* ------------------------------------------------------------------ *)
(* Properties of the engine                                           *)
(* ------------------------------------------------------------------ *)

\* The positions in fs of the findings with this rule id about this subject
FindingsAbout(fs, rule_id, subject_id) ==
  {i \in 1..Len(fs) : fs[i].rule_id = rule_id /\ fs[i].subject_id = subject_id}

\* The computed occupant load of a space of the context
LoadOf(space) == calculateOccupantLoad(space, ctx).computed_occupants

\* The sum of the loads of the project's spaces whose id the exit lists
ServedLoad(exit) ==
  LET spaces == ctx.project.spaces
      served == {i \in 1..Len(spaces) :
                   \E k \in 1..Len(exit.serves_space_ids) :
                     exit.serves_space_ids[k] = spaces[i].id}
      sum[I \in SUBSET served] ==
        IF I = {} THEN 0
        ELSE LET i == CHOOSE x \in I : TRUE IN LoadOf(spaces[i]) + sum[I \ {i}]
  IN  sum[served]

\* Two results of evaluate agree in everything but evaluated_at
SameButTimestamp(a, b) ==
  /\ a.findings = b.findings
  /\ a.summary = b.summary
  /\ a.project_id = b.project_id
  /\ a.dataset_version = b.dataset_version

C2_CountInvariant ==
  ret.op = "evaluate" =>
    LET s == ret.value.summary
        f == ret.value.findings
        N(status) == Cardinality({i \in 1..Len(f) : f[i].status = status})
    IN  /\ s.passed = N("PASS")
        /\ s.failed = N("FAIL")
        /\ s.review = N("REVIEW")
        /\ s.passed + s.failed + s.review = s.total_rules
        /\ s.total_rules = Len(f)

\* evaluate has returned findings of all three statuses
C2_Witness ==
  /\ ret.op = "evaluate"
  /\ ret.value.summary.passed > 0
  /\ ret.value.summary.failed > 0
  /\ ret.value.summary.review > 0

SeverityRank(severity) ==
  CASE severity = "BLOCKER" -> 0 [] severity = "WARNING" -> 1 [] severity = "INFO" -> 2

StatusRank(status) ==
  CASE status = "FAIL" -> 0 [] status = "REVIEW" -> 1 [] status = "PASS" -> 2

\* a does not come after b: severity first, then status, then rule_id ascending
NotAfter(a, b) ==
  \/ SeverityRank(a.severity) < SeverityRank(b.severity)
  \/ /\ a.severity = b.severity
     /\ \/ StatusRank(a.status) < StatusRank(b.status)
        \/ /\ a.status = b.status
           /\ localeCompare(a.rule_id, b.rule_id) <= 0

\* C3 (sort invariant): in the findings evaluate returns, for any positions
\* i < j, finding i does not come after finding j in the order severity
\* (BLOCKER < WARNING < INFO), then status (FAIL < REVIEW < PASS), then
\* rule_id ascending.
C3_SortInvariant ==
  ret.op = "evaluate" =>
    LET f == ret.value.findings
    IN  \A i, j \in 1..Len(f) : i < j => NotAfter(f[i], f[j])

\* evaluate has returned findings of all three severities, two rule ids within
\* one (severity, status) group, in an order other than the order of collection
C3_Witness ==
  /\ ret.op = "evaluate"
  /\ LET f == ret.value.findings
     IN  /\ f # CollectFindings(ctx)
         /\ {f[i].severity : i \in 1..Len(f)} = {"BLOCKER", "WARNING", "INFO"}
         /\ \E i, j \in 1..Len(f) :
              /\ f[i].severity = f[j].severity
              /\ f[i].status = f[j].status
              /\ f[i].rule_id # f[j].rule_id

\* C4 (panic hardware): evaluateExits emits an EGR-EXIT-003 finding (FAIL,
\* BLOCKER) for an exit if and only if the exit serves more than 100 occupants
\* and has no panic hardware, whatever the outcome of the exit's width check,
\* a missing width requirement included.
C4_PanicHardware ==
  ret.op = "evaluateExits" =>
    \A k \in 1..Len(ctx.project.exits) :
      LET exit == ctx.project.exits[k]
          found == FindingsAbout(ret.value, "EGR-EXIT-003", exit.id)
      IN  /\ (found # {}) <=> (ServedLoad(exit) > 100 /\ ~exit.has_panic_hardware)
          /\ \A i \in found : /\ ret.value[i].status = "FAIL"
                              /\ ret.value[i].severity = "BLOCKER"

\* evaluateExits has returned for an exit that serves more than 100 occupants
\* without panic hardware, and for which no width requirement is found, a
\* width finding under review and no EGR-EXIT-003 finding
C4_Divergence ==
  /\ ret.op = "evaluateExits"
  /\ \E k \in 1..Len(ctx.project.exits) :
       LET exit == ctx.project.exits[k]
       IN  /\ ServedLoad(exit) > 100
           /\ ~exit.has_panic_hardware
           /\ FindingsAbout(ret.value, "EGR-EXIT-003", exit.id) = {}
           /\ \E i \in FindingsAbout(ret.value, "EGR-WIDTH-001", exit.id) :
                ret.value[i].status = "REVIEW"

\* The row lookupMinExits returns for a space of the context
MinExitsRowOf(space) ==
  lookupMinExits(ctx.datasets.tables.min_exits_by_occupants,
                 ctx.project.building.functional_class,
                 LoadOf(space), space.area_m2, space.is_underground,
                 space.fire_hazard_category)

\* The number of exits whose serves_space_ids contains the id
ExitsServing(id) ==
  Cardinality({k \in 1..Len(ctx.project.exits) :
                 \E n \in 1..Len(ctx.project.exits[k].serves_space_ids) :
                   ctx.project.exits[k].serves_space_ids[n] = id})

\* C5 (exit count): for each space for which lookupMinExits returns a row,
\* evaluateExits emits one EGR-EXIT-001 finding with measured = the number of
\* exits serving the space, required = the row's min_exits, and status PASS
\* (severity INFO) iff measured >= required, otherwise FAIL (BLOCKER).
C5_ExitCount ==
  ret.op = "evaluateExits" =>
    \A n \in 1..Len(ctx.project.spaces) :
      LET space == ctx.project.spaces[n]
          row == MinExitsRowOf(space)
          found == FindingsAbout(ret.value, "EGR-EXIT-001", space.id)
      IN  row # <<>> =>
            /\ Cardinality(found) = 1
            /\ \A i \in found :
                 LET f == ret.value[i]
                 IN  /\ f.measured = ExitsServing(space.id)
                     /\ f.required = row[1].min_exits
                     /\ IF ExitsServing(space.id) >= row[1].min_exits
                          THEN f.status = "PASS" /\ f.severity = "INFO"
                          ELSE f.status = "FAIL" /\ f.severity = "BLOCKER"

\* evaluateExits has returned, for a project with an exit that serves several
\* spaces, a failed exit count of one exit against two required and a passed one
C5_Witness ==
  /\ ret.op = "evaluateExits"
  /\ \E k \in 1..Len(ctx.project.exits) : Len(ctx.project.exits[k].serves_space_ids) > 1
  /\ \E i \in 1..Len(ret.value) :
       /\ ret.value[i].rule_id = "EGR-EXIT-001"
       /\ ret.value[i].status = "FAIL"
       /\ ret.value[i].measured = 1
       /\ ret.value[i].required = 2
  /\ \E i \in 1..Len(ret.value) :
       /\ ret.value[i].rule_id = "EGR-EXIT-001"
       /\ ret.value[i].status = "PASS"

\* The findings a call returned: evaluate wraps them in its result
ReturnedFindings == IF ret.op = "evaluate" THEN ret.value.findings ELSE ret.value

\* The row lookupMinWidth returns for an exit of the context
ExitWidthRowOf(exit) ==
  lookupMinWidth(ctx.datasets.tables.min_widths, "exit_door", ServedLoad(exit),
                 \E n \in 1..Len(ctx.project.spaces) :
                   /\ ctx.project.spaces[n].is_underground
                   /\ \E k \in 1..Len(exit.serves_space_ids) :
                        exit.serves_space_ids[k] = ctx.project.spaces[n].id)

\* The row lookupMaxTravelDistance returns for a route of the context
TravelRowOf(route) ==
  lookupMaxTravelDistance(ctx.datasets.tables.max_travel_distance,
                          route.evacuation_type, "room",
                          FromSpaceCategory(route, ctx),
                          [isSingleStorey |-> ctx.project.building.is_single_storey,
                           hasSprinklers |-> ctx.project.building.has_sprinklers,
                           hasFireAlarm |-> ctx.project.building.has_fire_alarm])

\* The row lookupOccupantLoadFactor returns for a space of the context
FactorRowOf(space) ==
  lookupOccupantLoadFactor(ctx.datasets.tables.occupant_load_table_8,
                           ctx.project.building.functional_class, space.purpose,
                           IF space.floor = 0 THEN "true" ELSE "false")

HasPositiveOverride(space) ==
  space.occupants_override # Undef /\ space.occupants_override > 0

\* The subject has a finding with the rule id, and each such finding is under
\* review with severity WARNING and required = null
ReviewOnly(fs, rule_id, subject_id) ==
  /\ FindingsAbout(fs, rule_id, subject_id) # {}
  /\ \A i \in FindingsAbout(fs, rule_id, subject_id) :
       /\ fs[i].status = "REVIEW"
       /\ fs[i].severity = "WARNING"
       /\ fs[i].required = Null

MissingMinExits == {n \in 1..Len(ctx.project.spaces) :
                      MinExitsRowOf(ctx.project.spaces[n]) = <<>>}
MissingExitWidth == {k \in 1..Len(ctx.project.exits) :
                       ExitWidthRowOf(ctx.project.exits[k]) = <<>>}
MissingTravel == {r \in 1..Len(ctx.project.routes) :
                    TravelRowOf(ctx.project.routes[r]) = <<>>}
MissingFactor == {n \in 1..Len(ctx.project.spaces) :
                    /\ FactorRowOf(ctx.project.spaces[n]) = <<>>
                    /\ ~HasPositiveOverride(ctx.project.spaces[n])}

\* C6 (lookup miss degrades to REVIEW): when lookupMinExits finds no row for a
\* space, lookupMinWidth none for an exit, lookupMaxTravelDistance none for a
\* route, or lookupOccupantLoadFactor none for a space without override, the
\* rule module (and evaluate) returns for that subject a finding EGR-EXIT-001,
\* EGR-WIDTH-001, EGR-TRAVEL-001, EGR-OCC-002 respectively with status REVIEW,
\* severity WARNING and required = null, and no PASS or FAIL finding with that
\* rule id for that subject.
C6_LookupMissReview ==
  /\ ret.op \in {"evaluateExits", "evaluate"} =>
       /\ \A n \in MissingMinExits :
            ReviewOnly(ReturnedFindings, "EGR-EXIT-001", ctx.project.spaces[n].id)
       /\ \A k \in MissingExitWidth :
            ReviewOnly(ReturnedFindings, "EGR-WIDTH-001", ctx.project.exits[k].id)
  /\ ret.op \in {"evaluateTravelDistance", "evaluate"} =>
       \A r \in MissingTravel :
         ReviewOnly(ReturnedFindings, "EGR-TRAVEL-001", ctx.project.routes[r].id)
  /\ ret.op \in {"evaluateOccupantLoad", "evaluate"} =>
       \A n \in MissingFactor :
         ReviewOnly(ReturnedFindings, "EGR-OCC-002", ctx.project.spaces[n].id)

\* evaluate has returned for a context in which all four lookups miss
C6_Witness ==
  /\ ret.op = "evaluate"
  /\ MissingMinExits # {}
  /\ MissingExitWidth # {}
  /\ MissingTravel # {}
  /\ MissingFactor # {}

\* C7 (occupant override): calculateOccupantLoad returns computed_occupants =
\* occupants_override, occupant_source = 'override' and area_per_person_m2 =
\* null exactly when occupants_override is present and > 0, whatever the
\* dataset and the area; otherwise occupant_source = 'calculated'.
C7_OccupantOverride ==
  ret.op = "calculateTotalOccupants" =>
    \A n \in 1..Len(ctx.project.spaces) :
      LET space == ctx.project.spaces[n]
          computed == ret.value.bySpace[n]
      IN  IF HasPositiveOverride(space)
            THEN /\ computed.computed_occupants = space.occupants_override
                 /\ computed.occupant_source = "override"
                 /\ computed.area_per_person_m2 = Null
            ELSE /\ computed.occupant_source = "calculated"
                 /\ computed.area_per_person_m2 # Null

\* calculateOccupantLoad has returned for a space with a positive override whose
\* area alone would give another load, and for a space with an override of 0
C7_Witness ==
  /\ ret.op = "calculateTotalOccupants"
  /\ \E n \in 1..Len(ctx.project.spaces) :
       /\ HasPositiveOverride(ctx.project.spaces[n])
       /\ ret.value.bySpace[n].occupant_source = "override"
       /\ ctx.project.spaces[n].occupants_override * defaultAreaPerPerson
            > ctx.project.spaces[n].area_m2 + defaultAreaPerPerson
  /\ \E n \in 1..Len(ctx.project.spaces) :
       /\ ctx.project.spaces[n].occupants_override = 0
       /\ ret.value.bySpace[n].occupant_source = "calculated"

\* The factor of a space: the dataset row's area_per_person_m2, or 5.0
FactorOf(space) ==
  IF FactorRowOf(space) = <<>> THEN 500 ELSE FactorRowOf(space)[1].area_per_person_m2

\* C8 (occupant load arithmetic): for a space without a positive override,
\* computed_occupants is the least integer n with n * factor >= area, where
\* factor is the area_per_person_m2 of the row lookupOccupantLoadFactor
\* returns for isGroundFloor = (floor = 0), or 5.0 when it returns null.
C8_OccupantLoadCeil ==
  ret.op = "calculateTotalOccupants" =>
    \A n \in 1..Len(ctx.project.spaces) :
      LET space == ctx.project.spaces[n]
          computed == ret.value.bySpace[n]
      IN  ~HasPositiveOverride(space) =>
            /\ computed.area_per_person_m2 = FactorOf(space)
            /\ computed.computed_occupants * FactorOf(space) >= space.area_m2
            /\ (computed.computed_occupants - 1) * FactorOf(space) < space.area_m2

\* calculateOccupantLoad has returned 51 for a space of 101 m2 at the dataset
\* factor 2.0: the quotient 50.5 is rounded up
C8_Witness ==
  /\ ret.op = "calculateTotalOccupants"
  /\ \E n \in 1..Len(ctx.project.spaces) :
       /\ ~HasPositiveOverride(ctx.project.spaces[n])
       /\ ctx.project.spaces[n].area_m2 = 10100
       /\ FactorOf(ctx.project.spaces[n]) = 200
       /\ ret.value.bySpace[n].computed_occupants = 51

\* C9 (occupant-load findings): evaluateOccupantLoad emits for every space
\* exactly one EGR-OCC-001 finding, with status PASS, severity INFO and
\* measured = the space's computed occupants, and an EGR-OCC-002 finding
\* (REVIEW, WARNING) for a space if and only if no dataset factor is found for
\* the space and the space has no positive override.
C9_OccupantLoadFindings ==
  ret.op = "evaluateOccupantLoad" =>
    \A n \in 1..Len(ctx.project.spaces) :
      LET space == ctx.project.spaces[n]
          info == FindingsAbout(ret.value, "EGR-OCC-001", space.id)
          warn == FindingsAbout(ret.value, "EGR-OCC-002", space.id)
      IN  /\ Cardinality(info) = 1
          /\ \A i \in info : /\ ret.value[i].status = "PASS"
                             /\ ret.value[i].severity = "INFO"
                             /\ ret.value[i].measured = LoadOf(space)
          /\ (warn # {}) <=> (FactorRowOf(space) = <<>> /\ ~HasPositiveOverride(space))
          /\ \A i \in warn : /\ ret.value[i].status = "REVIEW"
                             /\ ret.value[i].severity = "WARNING"

\* evaluateOccupantLoad has returned for a project with a space that has no
\* dataset factor and no override, and a space that has no dataset factor but
\* a positive override
C9_Witness ==
  /\ ret.op = "evaluateOccupantLoad"
  /\ \E n, m \in 1..Len(ctx.project.spaces) :
       /\ FactorRowOf(ctx.project.spaces[n]) = <<>>
       /\ ~HasPositiveOverride(ctx.project.spaces[n])
       /\ FindingsAbout(ret.value, "EGR-OCC-002", ctx.project.spaces[n].id) # {}
       /\ FactorRowOf(ctx.project.spaces[m]) = <<>>
       /\ HasPositiveOverride(ctx.project.spaces[m])
       /\ FindingsAbout(ret.value, "EGR-OCC-002", ctx.project.spaces[m].id) = {}

\* For each exit with a width row, one EGR-WIDTH-001 finding with measured =
\* width_m, the given required width, and PASS (INFO) iff width_m >= required,
\* otherwise FAIL (BLOCKER)
ExitWidthFindings(Required(_)) ==
  \A k \in 1..Len(ctx.project.exits) :
    LET exit == ctx.project.exits[k]
        row == ExitWidthRowOf(exit)
        found == FindingsAbout(ret.value, "EGR-WIDTH-001", exit.id)
    IN  row # <<>> =>
          /\ Cardinality(found) = 1
          /\ \A i \in found :
               LET f == ret.value[i]
               IN  /\ f.measured = exit.width_m
                   /\ f.required = Required(row[1])
                   /\ IF exit.width_m >= Required(row[1])
                        THEN f.status = "PASS" /\ f.severity = "INFO"
                        ELSE f.status = "FAIL" /\ f.severity = "BLOCKER"

\* The row's min_width_m, or 0.9 when it is null or absent
WidthOrDefaultWhenNull(row) ==
  IF row.min_width_m \in {Null, Undef} THEN 90 ELSE row.min_width_m

\* The row's min_width_m, or 0.9 when it is null, absent or 0
WidthOrDefaultWhenFalsy(row) ==
  IF row.min_width_m \in {Null, Undef, 0} THEN 90 ELSE row.min_width_m

\* C10 (exit width, as stated): for each exit for which lookupMinWidth
\* ('exit_door', total served load, any served space underground) returns a
\* row, evaluateExits emits EGR-WIDTH-001 with measured = width_m, required =
\* the row's min_width_m or 0.9 when that value is null or absent, and status
\* PASS (INFO) iff width_m >= required, otherwise FAIL (BLOCKER).
C10_ExitWidth_AsStated ==
  ret.op = "evaluateExits" => ExitWidthFindings(WidthOrDefaultWhenNull)

\* C10 (exit width, amended): as stated, except that required is 0.9 also
\* when the row's min_width_m is 0.
C10_ExitWidth ==
  ret.op = "evaluateExits" => ExitWidthFindings(WidthOrDefaultWhenFalsy)

\* evaluateExits has returned width findings for an exit that serves two
\* spaces and whose row has the width 0, failed against the default 0.9, and
\* for an exit whose row has the width null, passed against the default 0.9
C10_Witness ==
  /\ ret.op = "evaluateExits"
  /\ \E k \in 1..Len(ctx.project.exits) :
       /\ Len(ctx.project.exits[k].serves_space_ids) > 1
       /\ ExitWidthRowOf(ctx.project.exits[k]) # <<>>
       /\ ExitWidthRowOf(ctx.project.exits[k])[1].min_width_m = 0
       /\ \E i \in FindingsAbout(ret.value, "EGR-WIDTH-001", ctx.project.exits[k].id) :
            ret.value[i].required = 90 /\ ret.value[i].status = "FAIL"
  /\ \E k \in 1..Len(ctx.project.exits) :
       /\ ExitWidthRowOf(ctx.project.exits[k]) # <<>>
       /\ ExitWidthRowOf(ctx.project.exits[k])[1].min_width_m = Null
       /\ \E i \in FindingsAbout(ret.value, "EGR-WIDTH-001", ctx.project.exits[k].id) :
            ret.value[i].required = 90 /\ ret.value[i].status = "PASS"

(* ------------------------------------------------------------------ *)
(* Travel distance                                                    *)
(* ------------------------------------------------------------------ *)

\* The routes of the context, by position
RouteIndexes == 1..Len(ctx.project.routes)

\* C11: for every route for which lookupMaxTravelDistance (the route's
\* evacuation type, context 'room', the source space's fire-hazard category,
\* the building's flags) returns a row, evaluateTravelDistance returns exactly
\* one EGR-TRAVEL-001 finding about the route; its measured value is length_m,
\* its required value is the row's max_distance_m, and it is PASS with
\* severity INFO when length_m <= max_distance_m and FAIL with severity
\* BLOCKER otherwise.
C11_TravelDistance ==
  ret.op = "evaluateTravelDistance" =>
    \A r \in RouteIndexes :
      LET route == ctx.project.routes[r]
          row == TravelRowOf(route)
          about == FindingsAbout(ret.value, "EGR-TRAVEL-001", route.id)
      IN  row # <<>> =>
            /\ Cardinality(about) = 1
            /\ \A i \in about :
                 /\ ret.value[i].measured = route.length_m
                 /\ ret.value[i].required = row[1].max_distance_m
                 /\ IF route.length_m <= row[1].max_distance_m
                      THEN ret.value[i].status = "PASS" /\ ret.value[i].severity = "INFO"
                      ELSE ret.value[i].status = "FAIL" /\ ret.value[i].severity = "BLOCKER"

\* A route exactly as long as its limit passes next to a route over its limit
C11_Witness ==
  /\ ret.op = "evaluateTravelDistance"
  /\ \E r \in RouteIndexes :
       /\ TravelRowOf(ctx.project.routes[r]) # <<>>
       /\ ctx.project.routes[r].length_m = TravelRowOf(ctx.project.routes[r])[1].max_distance_m
       /\ \E i \in FindingsAbout(ret.value, "EGR-TRAVEL-001", ctx.project.routes[r].id) :
            ret.value[i].status = "PASS"
  /\ \E r \in RouteIndexes :
       /\ TravelRowOf(ctx.project.routes[r]) # <<>>
       /\ ctx.project.routes[r].length_m > TravelRowOf(ctx.project.routes[r])[1].max_distance_m
       /\ \E i \in FindingsAbout(ret.value, "EGR-TRAVEL-001", ctx.project.routes[r].id) :
            ret.value[i].status = "FAIL" /\ ret.value[i].severity = "BLOCKER"

\* The dead-end limit that applies to a route: the first dead_end_limits row
\* marked F5G/F5D when the source space is of category F5G or F5D, the first
\* general row otherwise, and 20 m when the dataset has no such row
DeadEndLimitOf(route) ==
  LET limits == ctx.datasets.tables.dead_end_limits
      special == FromSpaceCategory(route, ctx) \in {"F5G", "F5D"}
      Applies(e) == IF special THEN Includes(e.context, "F5G/F5D")
                    ELSE \/ Includes(e.context, "sasedni pomeshteniya F5V")
                         \/ Includes(e.context, "F1-F4")
      rows == {k \in 1..Len(limits) : Applies(limits[k])}
  IN  IF rows = {} THEN DefaultMaxDeadEnd
      ELSE limits[CHOOSE k \in rows : \A j \in rows : k <= j].max_distance_m

\* C12: evaluateTravelDistance returns an EGR-TRAVEL-002 finding for every
\* route that has a dead end; its measured value is dead_end_length_m and it
\* is PASS with severity INFO when dead_end_length_m is at most the resolved
\* dead-end limit and FAIL with severity BLOCKER otherwise. A route with
\* has_dead_end = false has no EGR-TRAVEL-002 finding.
C12_DeadEnd ==
  ret.op = "evaluateTravelDistance" =>
    \A r \in RouteIndexes :
      LET route == ctx.project.routes[r]
          about == FindingsAbout(ret.value, "EGR-TRAVEL-002", route.id)
      IN  IF route.has_dead_end
            THEN /\ about # {}
                 /\ \A i \in about :
                      /\ ret.value[i].measured = route.dead_end_length_m
                      /\ IF route.dead_end_length_m <= DeadEndLimitOf(route)
                           THEN ret.value[i].status = "PASS" /\ ret.value[i].severity = "INFO"
                           ELSE ret.value[i].status = "FAIL" /\ ret.value[i].severity = "BLOCKER"
            ELSE about = {}

\* A route that has a dead end and no dead_end_length_m is returned without
\* any EGR-TRAVEL-002 finding
C12_Divergence ==
  /\ ret.op = "evaluateTravelDistance"
  /\ \E r \in RouteIndexes :
       /\ ctx.project.routes[r].has_dead_end
       /\ ctx.project.routes[r].dead_end_length_m = Undef
       /\ FindingsAbout(ret.value, "EGR-TRAVEL-002", ctx.project.routes[r].id) = {}

\* What does hold for dead ends: a route gets exactly one EGR-TRAVEL-002
\* finding, with the resolved limit as its required value, when it has a dead
\* end and its dead_end_length_m is supplied, and none otherwise
C12_DeadEndWithLength ==
  ret.op = "evaluateTravelDistance" =>
    \A r \in RouteIndexes :
      LET route == ctx.project.routes[r]
          about == FindingsAbout(ret.value, "EGR-TRAVEL-002", route.id)
      IN  IF route.has_dead_end /\ route.dead_end_length_m # Undef
            THEN /\ Cardinality(about) = 1
                 /\ \A i \in about :
                      /\ ret.value[i].measured = route.dead_end_length_m
                      /\ ret.value[i].required = DeadEndLimitOf(route)
                      /\ IF route.dead_end_length_m <= DeadEndLimitOf(route)
                           THEN ret.value[i].status = "PASS" /\ ret.value[i].severity = "INFO"
                           ELSE ret.value[i].status = "FAIL" /\ ret.value[i].severity = "BLOCKER"
            ELSE about = {}

(* ------------------------------------------------------------------ *)
(* Stairs                                                             *)
(* ------------------------------------------------------------------ *)

\* The stairs of the context, by position
StairIndexes == 1..Len(ctx.project.stairs)

\* An enclosed stair serving more than three floors without natural light
\* and without a smoke vent
UnlitEnclosed(stair) ==
  /\ stair.type = "enclosed"
  /\ Len(stair.serves_floors) > 3
  /\ stair.is_naturally_lit = FALSE
  /\ stair.has_smoke_vent = FALSE

\* C13: a stair has an EGR-STAIR-005 finding, which is FAIL with severity
\* BLOCKER, exactly when its type is 'enclosed', serves_floors has more than
\* three entries, is_naturally_lit is false and has_smoke_vent is false; any
\* other stair has no EGR-STAIR-005 finding of any status.
C13_StairLighting ==
  ret.op \in {"evaluateStairs", "evaluate"} =>
    \A n \in StairIndexes :
      LET stair == ctx.project.stairs[n]
          about == FindingsAbout(ReturnedFindings, "EGR-STAIR-005", stair.id)
      IN  IF UnlitEnclosed(stair)
            THEN /\ Cardinality(about) = 1
                 /\ \A i \in about : /\ ReturnedFindings[i].status = "FAIL"
                                      /\ ReturnedFindings[i].severity = "BLOCKER"
            ELSE about = {}

\* The finding is returned for an unlit enclosed stair of four floors
C13_Witness ==
  /\ ret.op = "evaluateStairs"
  /\ \E n \in StairIndexes :
       /\ UnlitEnclosed(ctx.project.stairs[n])
       /\ \E i \in FindingsAbout(ret.value, "EGR-STAIR-005", ctx.project.stairs[n].id) :
            ret.value[i].status = "FAIL"

\* The sum of the computed loads of the spaces on the floors a stair serves
StairLoad(stair) ==
  LET spaces == ctx.project.spaces
      served == {i \in 1..Len(spaces) :
                   \E k \in 1..Len(stair.serves_floors) :
                     stair.serves_floors[k] = spaces[i].floor}
      sum[I \in SUBSET served] ==
        IF I = {} THEN 0
        ELSE LET i == CHOOSE j \in I : TRUE
             IN  LoadOf(spaces[i]) + sum[I \ {i}]
  IN  sum[served]

\* Whether some space on a floor the stair serves is underground
ServesUnderground(stair) ==
  \E i \in 1..Len(ctx.project.spaces) :
    /\ ctx.project.spaces[i].is_underground
    /\ \E k \in 1..Len(stair.serves_floors) :
         stair.serves_floors[k] = ctx.project.spaces[i].floor

\* The minimum width in hundredths of a centimetre, in exact arithmetic:
\* 1.2 m or 1.5 m for a spiral stair, otherwise 0.9 m up to 200 occupants and
\* max(0.9, occ/100 * w) m above, w = 1.2 underground and 0.8 otherwise
StatedStairMinimum(stair) ==
  LET occ == StairLoad(stair)
      perOccupant == IF ServesUnderground(stair) THEN 120 ELSE 80
  IN  IF stair.type = "spiral" THEN (IF occ <= 50 THEN 12000 ELSE 15000)
      ELSE IF occ <= 200 THEN 9000
      ELSE Max2(9000, occ * perOccupant)

\* C14: every stair has exactly one EGR-STAIR-001 finding, and it is PASS
\* with severity INFO when width_m is at least the minimum (1.2 for a spiral
\* stair with occ <= 50, 1.5 for a spiral stair with occ > 50, otherwise 0.9
\* when occ <= 200 and max(0.9, occ/100 * w) when occ > 200, w = 1.2 if a space
\* on a served floor is underground and 0.8 otherwise, occ = the sum of the
\* computed loads of the spaces on the served floors), and FAIL with severity
\* BLOCKER otherwise.
C14_StairWidth ==
  ret.op = "evaluateStairs" =>
    \A n \in StairIndexes :
      LET stair == ctx.project.stairs[n]
          about == FindingsAbout(ret.value, "EGR-STAIR-001", stair.id)
      IN  /\ Cardinality(about) = 1
          /\ \A i \in about :
               IF stair.width_m * 100 >= StatedStairMinimum(stair)
                 THEN ret.value[i].status = "PASS" /\ ret.value[i].severity = "INFO"
                 ELSE ret.value[i].status = "FAIL" /\ ret.value[i].severity = "BLOCKER"

\* A stair exactly as wide as the minimum for more than 200 occupants is
\* returned as FAIL
C14_Divergence ==
  /\ ret.op = "evaluateStairs"
  /\ \E n \in StairIndexes :
       /\ StairLoad(ctx.project.stairs[n]) > 200
       /\ ctx.project.stairs[n].width_m * 100 = StatedStairMinimum(ctx.project.stairs[n])
       /\ \E i \in FindingsAbout(ret.value, "EGR-STAIR-001", ctx.project.stairs[n].id) :
            /\ ret.value[i].status = "FAIL"
            /\ ret.value[i].measured = ret.value[i].required

\* What does hold for the stair width: the verdict is the stated one for
\* every stair whose width differs from the minimum
C14_StairWidthOffMinimum ==
  ret.op = "evaluateStairs" =>
    \A n \in StairIndexes :
      LET stair == ctx.project.stairs[n]
          about == FindingsAbout(ret.value, "EGR-STAIR-001", stair.id)
      IN  /\ Cardinality(about) = 1
          /\ stair.width_m * 100 # StatedStairMinimum(stair) =>
               \A i \in about :
                 IF stair.width_m * 100 > StatedStairMinimum(stair)
                   THEN ret.value[i].status = "PASS" /\ ret.value[i].severity = "INFO"
                   ELSE ret.value[i].status = "FAIL" /\ ret.value[i].severity = "BLOCKER"

\* The status and severity a finding must carry
Verdict(f, passes) ==
  IF passes THEN f.status = "PASS" /\ f.severity = "INFO"
  ELSE f.status = "FAIL" /\ f.severity = "BLOCKER"

\* C15: a stair whose step_width_m is supplied has exactly one EGR-STAIR-003
\* finding, PASS when step_width_m >= 0.23 for a spiral stair and >= 0.25 for
\* any other type; a stair whose step_height_m is supplied has exactly one
\* EGR-STAIR-004 finding, PASS when step_height_m <= 0.25 for an external
\* stair and <= 0.22 for any other type; a failing check is FAIL with
\* severity BLOCKER; a dimension that is not supplied produces no finding.
C15_StepDimensions ==
  ret.op = "evaluateStairs" =>
    \A n \in StairIndexes :
      LET stair == ctx.project.stairs[n]
          width == FindingsAbout(ret.value, "EGR-STAIR-003", stair.id)
          height == FindingsAbout(ret.value, "EGR-STAIR-004", stair.id)
      IN  /\ IF stair.step_width_m = Undef THEN width = {}
             ELSE /\ Cardinality(width) = 1
                  /\ \A i \in width :
                       Verdict(ret.value[i],
                               stair.step_width_m >=
                                 (IF stair.type = "spiral" THEN 23 ELSE 25))
          /\ IF stair.step_height_m = Undef THEN height = {}
             ELSE /\ Cardinality(height) = 1
                  /\ \A i \in height :
                       Verdict(ret.value[i],
                               stair.step_height_m <=
                                 (IF stair.type = "external" THEN 25 ELSE 22))

\* A spiral stair with a step width of 0.23 and no step height passes the
\* width check and has no height finding
C15_Witness ==
  /\ ret.op = "evaluateStairs"
  /\ \E n \in StairIndexes :
       /\ ctx.project.stairs[n].type = "spiral"
       /\ ctx.project.stairs[n].step_width_m = 23
       /\ ctx.project.stairs[n].step_height_m = Undef
       /\ \E i \in FindingsAbout(ret.value, "EGR-STAIR-003", ctx.project.stairs[n].id) :
            ret.value[i].status = "PASS"
       /\ FindingsAbout(ret.value, "EGR-STAIR-004", ctx.project.stairs[n].id) = {}

(* ------------------------------------------------------------------ *)
(* Derived queries                                                    *)
(* ------------------------------------------------------------------ *)

\* The positions of the findings of fs with status FAIL
FailedPositions(fs) == {i \in 1..Len(fs) : fs[i].status = "FAIL"}

\* sub is the subsequence of fs at the positions I, in the same order
IsSubsequenceAt(sub, fs, I) ==
  /\ Len(sub) = Cardinality(I)
  /\ \A i \in I : sub[Cardinality({j \in I : j <= i})] = fs[i]

\* C16: hasBlockers(ctx) is true exactly when evaluate(ctx) has a finding
\* with severity BLOCKER and status FAIL, which is when summary.blockers > 0;
\* getFailedFindings(ctx) is the subsequence of evaluate(ctx).findings with
\* status FAIL, in the same order, and its length is summary.failed.
C16_DerivedQueries ==
  LET result == evaluate(ctx, 0)
  IN  /\ ret.op = "hasBlockers" =>
           /\ ret.value = (\E i \in 1..Len(result.findings) :
                             /\ result.findings[i].severity = "BLOCKER"
                             /\ result.findings[i].status = "FAIL")
           /\ ret.value = (result.summary.blockers > 0)
      /\ ret.op = "getFailedFindings" =>
           /\ IsSubsequenceAt(ret.value, result.findings, FailedPositions(result.findings))
           /\ Len(ret.value) = result.summary.failed

\* getFailedFindings returns some but not all of the findings of a context
\* that has findings under review
C16_Witness ==
  /\ ret.op = "getFailedFindings"
  /\ Len(ret.value) > 1
  /\ \E i \in 1..Len(evaluate(ctx, 0).findings) :
       evaluate(ctx, 0).findings[i].status = "REVIEW"

(* ------------------------------------------------------------------ *)
(* validateContext                                                    *)
(* ------------------------------------------------------------------ *)

\* The project and its spaces, routes and exits lists are present
ListsPresent == Absent(ctx) \cap {"project", "spaces", "routes", "exits"} = {}

\* The dangling references of the project: <<kind, holder id, position>>
DanglingRouteSpaces ==
  {r \in 1..Len(ctx.project.routes) :
     \A n \in 1..Len(ctx.project.spaces) :
       ctx.project.spaces[n].id # ctx.project.routes[r].from_space_id}

DanglingRouteExits ==
  {r \in 1..Len(ctx.project.routes) :
     \A k \in 1..Len(ctx.project.exits) :
       ctx.project.exits[k].id # ctx.project.routes[r].to_exit_id}

DanglingExitSpaces ==
  {<<k, j>> \in (1..Len(ctx.project.exits)) \X (1..3) :
     /\ j <= Len(ctx.project.exits[k].serves_space_ids)
     /\ \A n \in 1..Len(ctx.project.spaces) :
          ctx.project.spaces[n].id # ctx.project.exits[k].serves_space_ids[j]}

\* Everything validateContext asks of a context whose lists are present
StructurallySound ==
  /\ "building" \notin Absent(ctx)
  /\ Len(ctx.project.spaces) >= 1
  /\ \A n, m \in 1..Len(ctx.project.spaces) :
       n # m => ctx.project.spaces[n].id # ctx.project.spaces[m].id
  /\ DanglingRouteSpaces = {}
  /\ DanglingRouteExits = {}
  /\ DanglingExitSpaces = {}
  /\ "datasets" \notin Absent(ctx)
  /\ "occupant_load_table_8" \notin Absent(ctx)

\* The positions of the errors with a message
ErrorsSaying(errors, message) == {i \in 1..Len(errors) : errors[i].message = message}

\* C17: for a context whose project and spaces, routes and exits lists are
\* present, validateContext returns, valid is true exactly when errors is
\* empty, and that is exactly when the building is present, there is at least
\* one space, the space ids are pairwise distinct, every route's
\* from_space_id is the id of a space, every route's to_exit_id is the id of
\* an exit, every id in every exit's serves_space_ids is the id of a space,
\* the dataset is present and the occupant-load table is present; every
\* dangling route->space, route->exit and exit->space reference has its own
\* entry in errors.
C17_ValidateVerdict ==
  (ret.op = "validateContext" /\ ListsPresent) =>
    /\ ret.value.outcome = "returned"
    /\ ret.value.valid = (ret.value.errors = <<>>)
    /\ ret.value.valid = StructurallySound
    /\ Cardinality(ErrorsSaying(ret.value.errors, "Route references unknown space"))
         = Cardinality(DanglingRouteSpaces)
    /\ Cardinality(ErrorsSaying(ret.value.errors, "Route references unknown exit"))
         = Cardinality(DanglingRouteExits)
    /\ Cardinality(ErrorsSaying(ret.value.errors, "Exit references unknown space"))
         = Cardinality(DanglingExitSpaces)
    /\ \A r \in DanglingRouteSpaces :
         \E i \in ErrorsSaying(ret.value.errors, "Route references unknown space") :
           /\ ret.value.errors[i].subject = ctx.project.routes[r].id
           /\ ret.value.errors[i].reference = ctx.project.routes[r].from_space_id
    /\ \A r \in DanglingRouteExits :
         \E i \in ErrorsSaying(ret.value.errors, "Route references unknown exit") :
           /\ ret.value.errors[i].subject = ctx.project.routes[r].id
           /\ ret.value.errors[i].reference = ctx.project.routes[r].to_exit_id
    /\ \A d \in DanglingExitSpaces :
         \E i \in ErrorsSaying(ret.value.errors, "Exit references unknown space") :
           /\ ret.value.errors[i].subject = ctx.project.exits[d[1]].id
           /\ ret.value.errors[i].reference = ctx.project.exits[d[1]].serves_space_ids[d[2]]

\* An exit that lists the same unknown space twice is reported twice, in a
\* context that lacks nothing else
C17_Witness ==
  /\ ret.op = "validateContext"
  /\ Absent(ctx) = {}
  /\ \E k \in 1..Len(ctx.project.exits) :
       /\ <<k, 1>> \in DanglingExitSpaces
       /\ <<k, 3>> \in DanglingExitSpaces
       /\ ctx.project.exits[k].serves_space_ids[1] = ctx.project.exits[k].serves_space_ids[3]
  /\ DanglingRouteSpaces = {}
  /\ DanglingRouteExits = {}
  /\ Len(ret.value.errors) = 2
  /\ ret.value.valid = FALSE

\* A context that passes every check is returned as valid
C17_ValidWitness ==
  /\ ret.op = "validateContext"
  /\ ListsPresent
  /\ StructurallySound
  /\ Len(ctx.project.routes) > 0
  /\ ret.value.valid

\* C18: when the project is absent, validateContext returns valid = false
\* with the single error 'Project data is missing' and checks nothing else,
\* whatever the dataset is, an absent dataset included.
C18_ShortCircuit ==
  (ret.op = "validateContext" /\ "project" \in Absent(ctx)) =>
    /\ ret.value.outcome = "returned"
    /\ ret.value.valid = FALSE
    /\ Len(ret.value.errors) = 1
    /\ ret.value.errors[1].message = "Project data is missing"

\* The call returns the single error for a context without project and
\* without dataset
C18_Witness ==
  /\ ret.op = "validateContext"
  /\ Absent(ctx) = {"project", "datasets"}
  /\ ret.value.outcome = "returned"
  /\ Len(ret.value.errors) = 1

(* ------------------------------------------------------------------ *)
(* Lookups                                                            *)
(* ------------------------------------------------------------------ *)

\* A row of the minimum-exits table matches a query
MinExitsMatch(row, q) ==
  /\ IF SubSeq(q.functionalClass, 1, 2) = "F5"
       THEN /\ row.functional_class_group = "F5"
            /\ (row.category # NoCat /\ q.fireHazardCategory # NoCat)
                 => row.category = q.fireHazardCategory
       ELSE row.functional_class_group = "F1-F4"
  /\ row.underground_only => q.isUnderground
  /\ row.min_occupants <= q.occupants
  /\ row.max_occupants = Null \/ q.occupants <= row.max_occupants
  /\ row.max_area_m2 = Null \/ q.area_m2 <= row.max_area_m2

\* C19: lookupMinExits returns null exactly when no row of the table matches
\* (class group 'F5' for an industrial class, with equal categories when the
\* row and the query both give one, 'F1-F4' otherwise; not underground_only
\* unless the space is underground; min_occupants <= occupants; max_occupants
\* null or occupants <= max_occupants; max_area_m2 null or area <=
\* max_area_m2); otherwise it returns the matching row with the smallest
\* min_exits, the earliest in table order among those that share it.
C19_MinExitsSelection ==
  ret.op = "lookupMinExits" =>
    LET q == ret.value
        matching == {k \in 1..Len(q.table) : MinExitsMatch(q.table[k], q)}
        least == {k \in matching :
                    \A j \in matching : q.table[k].min_exits <= q.table[j].min_exits}
    IN  IF matching = {} THEN q.row = <<>>
        ELSE q.row = << q.table[CHOOSE k \in least : \A j \in least : k <= j] >>

\* A row is returned although a matching row with more exits stands before
\* it in the table
C19_Witness ==
  /\ ret.op = "lookupMinExits"
  /\ ret.value.row # <<>>
  /\ \E k, j \in 1..Len(ret.value.table) :
       /\ k < j
       /\ MinExitsMatch(ret.value.table[k], ret.value)
       /\ ret.value.table[j] = ret.value.row[1]
       /\ ret.value.table[k].min_exits > ret.value.row[1].min_exits

\* Two matching rows share the smallest min_exits and the earlier one is
\* returned
C19_TieWitness ==
  /\ ret.op = "lookupMinExits"
  /\ ret.value.row # <<>>
  /\ \E k, j \in 1..Len(ret.value.table) :
       /\ k < j
       /\ MinExitsMatch(ret.value.table[j], ret.value)
       /\ ret.value.table[k] = ret.value.row[1]
       /\ ret.value.table[j].min_exits = ret.value.row[1].min_exits

\* The special rows of the distance table and the default context
IsSingleStoreyRow(e) == Includes(e.context, "F5G/F5D") /\ Includes(e.context, "ednoetazhna")

IsSprinklerRow(e) == Includes(e.context, "F5V") /\ Includes(e.context, "PGI")

DefaultContext(context) ==
  IF context = "room" THEN "Vatre v pomeshtenie" ELSE "Do stalbishte/zashtitena zona"

\* The rows of the context's distance table for an evacuation type, by position
TravelRows(evacuationType) ==
  {k \in 1..Len(ctx.datasets.tables.max_travel_distance) :
     ctx.datasets.tables.max_travel_distance[k].evacuation_type = evacuationType}

\* The row at the least of a non-empty set of positions, as a result
FirstTravelRow(K) ==
  << ctx.datasets.tables.max_travel_distance[CHOOSE k \in K : \A j \in K : k <= j] >>

\* C20: the result of lookupMaxTravelDistance has the requested
\* evacuation_type; it is the special single-storey F5G/F5D row exactly when
\* the category is F5G or F5D, isSingleStorey is true and such a row exists
\* for the evacuation type; it is the special F5V row exactly when the
\* category is F5V, hasSprinklers and hasFireAlarm are both true and such a
\* row exists; in every other case it is the first row whose context is
\* exactly the default context for that evacuation type, and it is null
\* exactly when there is no such default row.
C20_TravelPrecedence ==
  ret.op = "lookupMaxTravelDistance" =>
    LET q == ret.value
        table == ctx.datasets.tables.max_travel_distance
        singleStorey == {k \in TravelRows(q.evacuationType) : IsSingleStoreyRow(table[k])}
        sprinkler == {k \in TravelRows(q.evacuationType) : IsSprinklerRow(table[k])}
        default == {k \in TravelRows(q.evacuationType) :
                      table[k].context = DefaultContext(q.context)}
        wantsSingleStorey == /\ q.fireHazardCategory \in {"F5G", "F5D"}
                             /\ q.cond.isSingleStorey
                             /\ singleStorey # {}
        wantsSprinkler == /\ q.fireHazardCategory = "F5V"
                          /\ q.cond.hasSprinklers /\ q.cond.hasFireAlarm
                          /\ sprinkler # {}
    IN  /\ q.row # <<>> => q.row[1].evacuation_type = q.evacuationType
        /\ (q.row # <<>> /\ IsSingleStoreyRow(q.row[1])) = wantsSingleStorey
        /\ (q.row # <<>> /\ IsSprinklerRow(q.row[1])) = wantsSprinkler
        /\ wantsSingleStorey => q.row = FirstTravelRow(singleStorey)
        /\ wantsSprinkler => q.row = FirstTravelRow(sprinkler)
        /\ (~wantsSingleStorey /\ ~wantsSprinkler) =>
             IF default = {} THEN q.row = <<>> ELSE q.row = FirstTravelRow(default)
        /\ (q.row = <<>>) => default = {}

\* The default row is returned for category F5V with sprinklers and without
\* a fire alarm although the table has the special F5V row
C20_Witness ==
  /\ ret.op = "lookupMaxTravelDistance"
  /\ ret.value.fireHazardCategory = "F5V"
  /\ ret.value.cond.hasSprinklers
  /\ ~ret.value.cond.hasFireAlarm
  /\ \E k \in TravelRows(ret.value.evacuationType) :
       IsSprinklerRow(ctx.datasets.tables.max_travel_distance[k])
  /\ ret.value.row # <<>>
  /\ ret.value.row[1].context = DefaultContext(ret.value.context)

\* The default row is returned for a single-storey F5G building because the
\* table has no special row for the evacuation type
C20_FallbackWitness ==
  /\ ret.op = "lookupMaxTravelDistance"
  /\ ret.value.fireHazardCategory \in {"F5G", "F5D"}
  /\ ret.value.cond.isSingleStorey
  /\ ret.value.row # <<>>
  /\ ret.value.row[1].context = DefaultContext(ret.value.context)

(* ------------------------------------------------------------------ *)
(* Dead-end limit                                                     *)
(* ------------------------------------------------------------------ *)

\* The positions of the dead_end_limits rows of the branch a route takes
DeadEndBranchRows(route) ==
  LET limits == ctx.datasets.tables.dead_end_limits
  IN  IF FromSpaceCategory(route, ctx) \in {"F5G", "F5D"}
        THEN {k \in 1..Len(limits) : Includes(limits[k].context, "F5G/F5D")}
      ELSE {k \in 1..Len(limits) :
              \/ Includes(limits[k].context, "F1-F4")
              \/ Includes(limits[k].context, "sasedni pomeshteniya F5V")}

\* C21: the required value of every EGR-TRAVEL-002 finding is the
\* max_distance_m of the first dead_end_limits row whose context contains
\* 'F5G/F5D' when the route's source space has category F5G or F5D, and of
\* the first row with the general F1-F4 marker (or the adjacent-rooms F5V
\* marker) for every other route, one with an unknown source space included;
\* when the branch has no row it is 20 m, and the finding is PASS or FAIL,
\* never REVIEW.
C21_DeadEndLimit ==
  ret.op = "evaluateTravelDistance" =>
    \A r \in RouteIndexes :
      LET route == ctx.project.routes[r]
          rows == DeadEndBranchRows(route)
          limit == IF rows = {} THEN 2000
                   ELSE ctx.datasets.tables.dead_end_limits[
                          CHOOSE k \in rows : \A j \in rows : k <= j].max_distance_m
      IN  \A i \in FindingsAbout(ret.value, "EGR-TRAVEL-002", route.id) :
            /\ ret.value[i].required = limit
            /\ ret.value[i].status \in {"PASS", "FAIL"}
            /\ ret.value[i].status = "PASS" <=> route.dead_end_length_m <= limit

\* A route from an F5G space is held to 20 m by a table that has the general
\* row only
C21_Witness ==
  /\ ret.op = "evaluateTravelDistance"
  /\ \E r \in RouteIndexes :
       /\ FromSpaceCategory(ctx.project.routes[r], ctx) = "F5G"
       /\ DeadEndBranchRows(ctx.project.routes[r]) = {}
       /\ Len(ctx.datasets.tables.dead_end_limits) > 0
       /\ \E i \in FindingsAbout(ret.value, "EGR-TRAVEL-002", ctx.project.routes[r].id) :
            ret.value[i].required = 2000 /\ ret.value[i].status = "FAIL"

\* A route from an F5G space is held to the F5G/F5D row, which stands after
\* the general row
C21_SpecialWitness ==
  /\ ret.op = "evaluateTravelDistance"
  /\ \E r \in RouteIndexes :
       /\ FromSpaceCategory(ctx.project.routes[r], ctx) = "F5G"
       /\ 2 \in DeadEndBranchRows(ctx.project.routes[r])
       /\ \E i \in FindingsAbout(ret.value, "EGR-TRAVEL-002", ctx.project.routes[r].id) :
            ret.value[i].required = 6000 /\ ret.value[i].status = "PASS"

\* The rows of the table, by position, that each step of the factor resolution
\* accepts: the rows of the class naming the space type, the retail rows of the
\* requested variant, the retail rows of the ground-floor variant, the retail
\* rows, the rows of the class, the general office rows
FactorSteps(table, functionalClass, spaceType, isGroundFloor) ==
  LET OfClass(c) == {i \in 1..Len(table) : table[i].functional_class = c}
      Marked(marker) == {i \in OfClass("F3.1") : Includes(table[i].space_type, marker)}
      retail == functionalClass = "F3.1"
  IN  << IF spaceType = "" THEN {}
         ELSE {i \in OfClass(functionalClass) :
                 Includes(ToLowerCase(table[i].space_type), ToLowerCase(spaceType))},
         IF retail /\ isGroundFloor = "true" THEN Marked("kota teren")
         ELSE IF retail /\ isGroundFloor = "false" THEN Marked("izvan")
         ELSE {},
         IF retail THEN Marked("kota teren") ELSE {},
         IF retail THEN OfClass("F3.1") ELSE {},
         OfClass(functionalClass),
         {i \in OfClass("general") : Includes(ToLowerCase(table[i].space_type), "ofis")} >>

\* The first row of the first step that accepts a row, or no row
FirstMatch(table, steps) ==
  LET hits == {k \in 1..Len(steps) : steps[k] # {}}
      Least(S) == CHOOSE x \in S : \A y \in S : x <= y
  IN  IF hits = {} THEN <<>> ELSE << table[Least(steps[Least(hits)])] >>

\* The steps of the last lookupOccupantLoadFactor call
ReturnedFactorSteps ==
  FactorSteps(ctx.datasets.tables.occupant_load_table_8, ret.value.functionalClass,
              ret.value.spaceType, ret.value.isGroundFloor)

\* C22 as stated: lookupOccupantLoadFactor returns the first row of the first
\* step that matches among the space-type match, the retail variant, the class
\* match and the general office row, and null only when no step matches
C22_FourSteps ==
  ret.op = "lookupOccupantLoadFactor" =>
    ret.value.row = FirstMatch(ctx.datasets.tables.occupant_load_table_8,
                               ReturnedFactorSteps)

\* C22: lookupOccupantLoadFactor returns the first row of the first step that
\* matches; for class F3.1 the steps are the space-type match and the retail
\* variant only (requested variant, else ground-floor variant, else first
\* retail row), for every other class the space-type match, the class match and
\* the general office row; it returns null when none of the steps tried matches
C22_Resolution ==
  ret.op = "lookupOccupantLoadFactor" =>
    ret.value.row =
      FirstMatch(ctx.datasets.tables.occupant_load_table_8,
                 IF ret.value.functionalClass = "F3.1"
                   THEN SubSeq(ReturnedFactorSteps, 1, 4)
                 ELSE ReturnedFactorSteps)

\* A retail lookup on a table without retail rows and with the general office
\* row has returned null
C22_Witness ==
  /\ ret.op = "lookupOccupantLoadFactor"
  /\ ret.value.functionalClass = "F3.1"
  /\ ReturnedFactorSteps[4] = {}
  /\ ReturnedFactorSteps[6] # {}
  /\ ret.value.row = <<>>

\* A retail lookup for the above-ground variant on a table with the
\* ground-floor variant only has returned the ground-floor row
C22_VariantWitness ==
  /\ ret.op = "lookupOccupantLoadFactor"
  /\ ret.value.functionalClass = "F3.1"
  /\ ret.value.isGroundFloor = "false"
  /\ ReturnedFactorSteps[1] = {}
  /\ ReturnedFactorSteps[2] = {}
  /\ ret.value.row # <<>>
  /\ Includes(ret.value.row[1].space_type, "kota teren")

\* A call that resolves occupant-load factors has returned, the building is of
\* class F3.1 and the occupant-load table has no F3.1 row
RetailWithoutRows ==
  /\ ret.op \in {"lookupOccupantLoadFactor", "calculateTotalOccupants",
                 "evaluateOccupantLoad", "evaluate"}
  /\ ctx.project.building.functional_class = "F3.1"
  /\ \A i \in 1..Len(ctx.datasets.tables.occupant_load_table_8) :
       ctx.datasets.tables.occupant_load_table_8[i].functional_class # "F3.1"

\* The table of the context has the general office row
HasGeneralOfficeRow ==
  \E i \in 1..Len(ctx.datasets.tables.occupant_load_table_8) :
    /\ ctx.datasets.tables.occupant_load_table_8[i].functional_class = "general"
    /\ Includes(ToLowerCase(ctx.datasets.tables.occupant_load_table_8[i].space_type), "ofis")

\* The space at position n got the default factor and one review finding
\* EGR-OCC-002, as far as the last call tells
DefaultFactorReviewed(n) ==
  LET space == ctx.project.spaces[n]
  IN  /\ ret.op = "calculateTotalOccupants" =>
           /\ ret.value.bySpace[n].area_per_person_m2 = defaultAreaPerPerson
           /\ ret.value.bySpace[n].computed_occupants
                = CeilDiv(space.area_m2, defaultAreaPerPerson)
      /\ ret.op \in {"evaluateOccupantLoad", "evaluate"} =>
           \E i \in FindingsAbout(ReturnedFindings, "EGR-OCC-002", space.id) :
             /\ FindingsAbout(ReturnedFindings, "EGR-OCC-002", space.id) = {i}
             /\ ReturnedFindings[i].status = "REVIEW"

\* C23 as stated: for class F3.1 on a table without F3.1 rows the lookup returns
\* null, general office row or not, and every space of such a context is
\* computed with the default factor 5.0 and gets an EGR-OCC-002 review finding
C23_EverySpace ==
  RetailWithoutRows =>
    /\ ret.op = "lookupOccupantLoadFactor" => ret.value.row = <<>>
    /\ \A n \in 1..Len(ctx.project.spaces) : DefaultFactorReviewed(n)

\* C23: for class F3.1 on a table without F3.1 rows the lookup returns null,
\* general office row or not, and every space of such a context that has no
\* positive occupants_override is computed with the default factor 5.0 and gets
\* an EGR-OCC-002 review finding
C23_RetailWithoutRows ==
  RetailWithoutRows =>
    /\ ret.op = "lookupOccupantLoadFactor" => ret.value.row = <<>>
    /\ \A n \in 1..Len(ctx.project.spaces) :
         ~HasPositiveOverride(ctx.project.spaces[n]) => DefaultFactorReviewed(n)

\* A retail space without override has been evaluated on a table that has the
\* general office row and no retail row, and has its review finding
C23_Witness ==
  /\ ret.op = "evaluateOccupantLoad"
  /\ RetailWithoutRows
  /\ HasGeneralOfficeRow
  /\ \E n \in 1..Len(ctx.project.spaces) :
       /\ ~HasPositiveOverride(ctx.project.spaces[n])
       /\ FindingsAbout(ReturnedFindings, "EGR-OCC-002", ctx.project.spaces[n].id) # {}

\* A retail space with a positive override has been evaluated on a table
\* without retail rows and has no review finding
C23_OverrideWitness ==
  /\ ret.op = "evaluateOccupantLoad"
  /\ RetailWithoutRows
  /\ \E n \in 1..Len(ctx.project.spaces) :
       /\ HasPositiveOverride(ctx.project.spaces[n])
       /\ FindingsAbout(ReturnedFindings, "EGR-OCC-002", ctx.project.spaces[n].id) = {}

\* The positions of the spiral-stair rows of the table of the last lookupMinWidth
\* call whose context contains one of the markers
SpiralRows(markers) ==
  {i \in 1..Len(ret.value.table) :
     /\ ret.value.table[i].element_type = "spiral_stair"
     /\ \E m \in markers : Includes(ret.value.table[i].context, m)}

\* The row at the least of the positions, or no row
FirstRowAt(table, positions) ==
  IF positions = {} THEN <<>>
  ELSE << table[CHOOSE i \in positions : \A j \in positions : i <= j] >>

\* The table has a spiral-stair row "16-50 choveka" before the first row with
\* the over-50 marker
RangeRowPrecedes ==
  /\ SpiralRows({"Nad 50"}) # {}
  /\ \E i \in SpiralRows({"16-50 choveka"}) : \A j \in SpiralRows({"Nad 50"}) : i < j

\* C24: lookupMinWidth(table, 'spiral_stair', n) with n > 50 returns the first
\* spiral_stair row whose context contains the over-50 marker or the text
\* "50 choveka"; when the "16-50 choveka" row precedes the over-50 row it returns
\* the 16-50 row (the row of the lookup for n <= 50, which is the first row
\* containing "16-50") and not the over-50 row
C24_SpiralStairWidth ==
  (ret.op = "lookupMinWidth" /\ ret.value.elementType = "spiral_stair") =>
    /\ ret.value.occupants > 50 =>
         /\ ret.value.row = FirstRowAt(ret.value.table, SpiralRows({"Nad 50", "50 choveka"}))
         /\ RangeRowPrecedes =>
              /\ ret.value.row = FirstRowAt(ret.value.table, SpiralRows({"16-50"}))
              /\ ~Includes(ret.value.row[1].context, "Nad 50")
    /\ ret.value.occupants <= 50 =>
         ret.value.row = FirstRowAt(ret.value.table, SpiralRows({"16-50"}))

\* A spiral-stair lookup for more than 50 occupants on a table whose 16-50 row
\* comes first has returned the 1.2 m row
C24_Witness ==
  /\ ret.op = "lookupMinWidth"
  /\ ret.value.elementType = "spiral_stair"
  /\ ret.value.occupants > 50
  /\ RangeRowPrecedes
  /\ ret.value.row # <<>>
  /\ ret.value.row[1].min_width_m = 120

\* A spiral-stair lookup for more than 50 occupants on a table whose over-50 row
\* comes first has returned the 1.5 m row
C24_OverFirstWitness ==
  /\ ret.op = "lookupMinWidth"
  /\ ret.value.elementType = "spiral_stair"
  /\ ret.value.occupants > 50
  /\ ~RangeRowPrecedes
  /\ ret.value.row # <<>>
  /\ ret.value.row[1].min_width_m = 150

\* C25: when the project is present and its spaces list is absent,
\* validateContext returns no {valid, errors} result: it pushes "At least one
\* space is required" and then throws while mapping the absent list, so the
\* error it pushed is the last thing it recorded and the caller gets the
\* exception
C25_MissingSpaces ==
  (/\ ret.op = "validateContext"
   /\ "project" \notin Absent(ctx)
   /\ "spaces" \in Absent(ctx)) =>
    /\ ret.value.outcome = "TypeError"
    /\ Len(ret.value.pushed) > 0
    /\ ret.value.pushed[Len(ret.value.pushed)].message = "At least one space is required"

\* validateContext has thrown on a context whose project has a building and no
\* spaces list
C25_Witness ==
  /\ ret.op = "validateContext"
  /\ Absent(ctx) = {"spaces"}
  /\ ret.value.outcome = "TypeError"
  /\ Len(ret.value.pushed) = 1

\* The severity that goes with a status
TiedSeverity(status) ==
  CASE status = "FAIL" -> "BLOCKER" [] status = "REVIEW" -> "WARNING" [] status = "PASS" -> "INFO"

\* C26: in every finding of evaluate the severity is BLOCKER iff the status is
\* FAIL, WARNING iff REVIEW and INFO iff PASS; summary.blockers = summary.failed;
\* hasBlockers(ctx) is true iff getFailedFindings(ctx) is non-empty
C26_StatusSeverityTied ==
  /\ ret.op = "evaluate" =>
       /\ \A i \in 1..Len(ret.value.findings) :
            /\ ret.value.findings[i].status \in {"FAIL", "REVIEW", "PASS"}
            /\ ret.value.findings[i].severity \in {"BLOCKER", "WARNING", "INFO"}
            /\ ret.value.findings[i].severity = TiedSeverity(ret.value.findings[i].status)
       /\ ret.value.summary.blockers = ret.value.summary.failed
  /\ ret.op = "hasBlockers" =>
       \A now \in 0..MaxTime : ret.value = (getFailedFindings(ctx, now) # <<>>)
  /\ ret.op = "getFailedFindings" =>
       \A now \in 0..MaxTime : (ret.value # <<>>) = hasBlockers(ctx, now)

\* evaluate has returned findings of all three statuses
C26_Witness ==
  /\ ret.op = "evaluate"
  /\ \A status \in {"FAIL", "REVIEW", "PASS"} :
       \E i \in 1..Len(ret.value.findings) : ret.value.findings[i].status = status
  /\ ret.value.summary.blockers > 0

\* hasBlockers has answered yes
C26_BlockersWitness ==
  /\ ret.op = "hasBlockers"
  /\ ret.value

\* The ids of the entities of the project that a finding of the scope may name
IdsOfScope(scope) ==
  LET Ids(entities) == {entities[i].id : i \in 1..Len(entities)}
  IN  CASE scope = "space" -> Ids(ctx.project.spaces)
        [] scope = "exit" -> Ids(ctx.project.exits)
        [] scope = "route" -> Ids(ctx.project.routes)
        [] scope = "stair" -> Ids(ctx.project.stairs)
        [] OTHER -> {}

\* Each of the entities is the subject of exactly one finding with the rule id
OnePrimaryFinding(entities, rule_id) ==
  \A n \in 1..Len(entities) :
    Cardinality(FindingsAbout(ret.value.findings, rule_id, entities[n].id)) = 1

\* C27: in the result of evaluate every space is the subject of exactly one
\* EGR-OCC-001 and exactly one EGR-EXIT-001 finding, every exit of exactly one
\* EGR-WIDTH-001, every route of exactly one EGR-TRAVEL-001, every stair of
\* exactly one EGR-STAIR-001; every finding's subject_id is the id of an entity
\* of the finding's scope; total_rules >= 2*|spaces| + |exits| + |routes| + |stairs|
C27_OnePrimaryFinding ==
  ret.op = "evaluate" =>
    /\ OnePrimaryFinding(ctx.project.spaces, "EGR-OCC-001")
    /\ OnePrimaryFinding(ctx.project.spaces, "EGR-EXIT-001")
    /\ OnePrimaryFinding(ctx.project.exits, "EGR-WIDTH-001")
    /\ OnePrimaryFinding(ctx.project.routes, "EGR-TRAVEL-001")
    /\ OnePrimaryFinding(ctx.project.stairs, "EGR-STAIR-001")
    /\ \A i \in 1..Len(ret.value.findings) :
         ret.value.findings[i].subject_id \in IdsOfScope(ret.value.findings[i].scope)
    /\ ret.value.summary.total_rules
         >= 2 * Len(ctx.project.spaces) + Len(ctx.project.exits)
              + Len(ctx.project.routes) + Len(ctx.project.stairs)

\* evaluate has returned for a project with two spaces and two exits, with
\* more findings than the primary ones
C27_Witness ==
  /\ ret.op = "evaluate"
  /\ Len(ctx.project.spaces) = 2
  /\ Len(ctx.project.exits) = 2
  /\ ret.value.summary.total_rules > 2 * Len(ctx.project.spaces) + Len(ctx.project.exits)

\* evaluate has returned for a project with two routes
C27_RouteWitness ==
  /\ ret.op = "evaluate"
  /\ Len(ctx.project.routes) = 2

\* evaluate has returned for a project with a stair that has more findings than
\* its width finding
C27_StairWitness ==
  /\ ret.op = "evaluate"
  /\ Len(ctx.project.stairs) = 1
  /\ Len(ret.value.findings) > 2 * Len(ctx.project.spaces) + Len(ctx.project.exits) + 1

\* Rules that hold a measured value to a minimum, and rules that hold it to a
\* maximum
MinimumRules == {"EGR-EXIT-001", "EGR-WIDTH-001", "EGR-STAIR-001", "EGR-STAIR-003"}

MaximumRules == {"EGR-TRAVEL-001", "EGR-TRAVEL-002", "EGR-STAIR-004"}

\* The positions of the findings of evaluate that carry a verdict and both numbers
JudgedWithNumbers ==
  {i \in 1..Len(ret.value.findings) :
     /\ ret.value.findings[i].status \in {"PASS", "FAIL"}
     /\ ret.value.findings[i].measured # Null
     /\ ret.value.findings[i].required # Null}

\* The finding passes exactly when its measured value is on the right side of
\* its required value
NumbersAgree(f) ==
  /\ f.rule_id \in MinimumRules => (f.status = "PASS" <=> f.measured >= f.required)
  /\ f.rule_id \in MaximumRules => (f.status = "PASS" <=> f.measured <= f.required)

\* C28: for every finding of evaluate with status PASS or FAIL and non-null
\* measured and required, the status is PASS iff measured >= required for the
\* minimum rules and PASS iff measured <= required for the maximum rules,
\* EGR-STAIR-001 with its rounded required value included
C28_ReportedNumbers ==
  ret.op = "evaluate" =>
    \A i \in JudgedWithNumbers : NumbersAgree(ret.value.findings[i])

\* evaluate has returned an EGR-STAIR-001 finding that fails although its
\* measured value is not below its required value
C28_Divergence ==
  /\ ret.op = "evaluate"
  /\ \E i \in JudgedWithNumbers :
       /\ ret.value.findings[i].rule_id = "EGR-STAIR-001"
       /\ ret.value.findings[i].status = "FAIL"
       /\ ret.value.findings[i].measured >= ret.value.findings[i].required

\* The same for a stair of 203 occupants, whose minimum of 1.624 m is reported
\* as 1.62 m
C28_RoundedDownDivergence ==
  /\ ret.op = "evaluate"
  /\ \E n \in 1..Len(ctx.project.stairs) :
       /\ StairRequiredWidth(ctx.project.stairs[n], ctx) = 16240
       /\ \E i \in FindingsAbout(ret.value.findings, "EGR-STAIR-001",
                                 ctx.project.stairs[n].id) :
            /\ ret.value.findings[i].status = "FAIL"
            /\ ret.value.findings[i].measured = 162
            /\ ret.value.findings[i].required = 162

\* What does hold: the numbers agree with the verdict for every rule but
\* EGR-STAIR-001, and an EGR-STAIR-001 finding that passes has measured >=
\* required, one that fails measured <= required
C28_ExceptStairWidth ==
  ret.op = "evaluate" =>
    \A i \in JudgedWithNumbers :
      LET f == ret.value.findings[i]
      IN  IF f.rule_id = "EGR-STAIR-001"
            THEN /\ f.status = "PASS" => f.measured >= f.required
                 /\ f.status = "FAIL" => f.measured <= f.required
          ELSE NumbersAgree(f)

\* The outputs of the four rule modules, concatenated in the order evaluate
\* calls them
ModuleOutputs ==
  evaluateOccupantLoad(ctx) \o evaluateExits(ctx)
    \o evaluateTravelDistance(ctx) \o evaluateStairs(ctx)

\* The sort key of a finding
SortKey(f) == <<f.severity, f.status, f.rule_id>>

\* The findings of the list that have the key, in the order of the list
WithKey(fs, key) ==
  LET HasKey(f) == SortKey(f) = key
  IN  SelectSeq(fs, HasKey)

\* How often the finding occurs in the list
Occurrences(fs, f) == Cardinality({i \in 1..Len(fs) : fs[i] = f})

\* C29: the findings of evaluate are a permutation of the concatenated outputs
\* of the occupant-load, exits, travel-distance and stairs modules, and the
\* findings of equal severity, status and rule_id stand in the order in which
\* the modules emitted them
C29_OrderAmongTies ==
  ret.op = "evaluate" =>
    LET emitted == ModuleOutputs
        keys == {SortKey(emitted[i]) : i \in 1..Len(emitted)}
    IN  /\ Len(ret.value.findings) = Len(emitted)
        /\ \A i \in 1..Len(emitted) :
             Occurrences(ret.value.findings, emitted[i]) = Occurrences(emitted, emitted[i])
        /\ \A key \in keys : WithKey(ret.value.findings, key) = WithKey(emitted, key)

\* evaluate has returned a list that the sort has reordered and in which two
\* findings of different subjects have the same key
C29_Witness ==
  /\ ret.op = "evaluate"
  /\ ret.value.findings # ModuleOutputs
  /\ \E i, j \in 1..Len(ret.value.findings) :
       /\ i < j
       /\ SortKey(ret.value.findings[i]) = SortKey(ret.value.findings[j])
       /\ ret.value.findings[i].subject_id # ret.value.findings[j].subject_id

\* Every route of the store starts at a stored space and ends at a stored
\* exit, and every exit serves stored spaces only
ReferencesResolvable ==
  /\ \A r \in 1..Len(state.routes) :
       /\ state.routes[r].from_space_id \in StoredSpaceIds
       /\ state.routes[r].to_exit_id \in StoredExitIds
  /\ \A e \in 1..Len(state.exits) :
       \A k \in 1..Len(state.exits[e].serves_space_ids) :
         state.exits[e].serves_space_ids[k] \in StoredSpaceIds

\* C30: from the initial store state, after any sequence of addSpace, addExit,
\* addRoute, removeSpace, removeExit, removeRoute and reset in which every added
\* route names a space and an exit present at that moment and every added exit
\* serves only spaces present at that moment, every route's from_space_id and
\* to_exit_id and every id in every exit's serves_space_ids is the id of a
\* stored entity
C30_ReferencesResolvable == addedResolvable => ReferencesResolvable

\* A space has been removed from a store that still holds a space, an exit
\* serving it and a route between them, every add having named stored entities
C30_Witness ==
  /\ ret.op = "removeSpace"
  /\ ret.value.stored
  /\ addedResolvable
  /\ Len(state.spaces) = 1
  /\ \E e \in 1..Len(state.exits) : Len(state.exits[e].serves_space_ids) = 1
  /\ Len(state.routes) > 0

\* An exit has been removed from a store that held a resolvable route, and the
\* spaces are all that is left
C30_RemoveExitWitness ==
  /\ ret.op = "removeExit"
  /\ ret.value.stored
  /\ addedResolvable
  /\ Len(state.spaces) = 2
  /\ state.exits = <<>>
  /\ state.routes = <<>>

\* A route or an exit added with the id of an entity that was not stored is
\* left dangling
C30_DanglingWitness ==
  /\ ~addedResolvable
  /\ ~ReferencesResolvable

====
